---- MODULE Spec2Model ----
(***************************************************************************)
(* A model of the stego-cli document model and build engine:               *)
(*   main / exitIfErrors          the validate, build and export commands  *)
(*   inspectProject               ordering, duplicate detection, sorting   *)
(*   buildManuscript              grouped compilation, page breaks, TOC    *)
(*   parseStegoCommentThreads     the comment appendix grammar             *)
(*   parseStegoCommentsAppendix   the markers and the removal of the block *)
(*   parseMetadata                the header block of a file's text        *)
(*   extractReferenceIds          the references a header names            *)
(*   findInlineSpineIdMentions    catalog identifiers in the prose         *)
(*   resolveSpineSchema           the categories a project declares        *)
(*   resolveCompileStructure      the grouping levels a project declares   *)
(*   coerceMetadataValue          the value of one header line             *)
(*   runStageCheck                the check-stage command                  *)
(* Strings whose characters matter (file names) are tuples of one-letter   *)
(* strings; lines of the appendix are records that carry what the regular  *)
(* expressions of the parser read from them.                               *)
(***************************************************************************)
EXTENDS Integers, Sequences, FiniteSets, TLC

VARIABLES
  command,      \* main: the command word
  pc,           \* main: position inside the command's case
  dir,          \* the manuscript directory as readdirSync enumerates it
  levels,       \* the project's resolved compile structure levels
  report,       \* the ProjectInspection returned by inspectProject
  output,       \* the compiled file written by buildManuscript
  exitCode,     \* the exit status set by process.exit
  blockLines,   \* parseStegoCommentThreads: the lines between the markers
  threads,      \* parseStegoCommentThreads: the result and its issues
  input,        \* the argument of the parser or resolver under study
  result        \* what the parser or resolver returned for it

vars == <<command, pc, dir, levels, report, output, exitCode, blockLines, threads,
         input, result>>

\* JavaScript's undefined / null, for values and for the variables not yet set.
Undefined == "<undefined>"

----------------------------------------------------------------------------
(* Bounds *)

MaxChars == 3
MaxFiles == 3
MaxDocs == 3
MaxRows == 4
MaxLines == 4
MaxEntries == 2

----------------------------------------------------------------------------
(* Sequences *)

Range(s) == {s[i] : i \in DOMAIN s}

RECURSIVE Concat(_)
Concat(ss) == IF ss = <<>> THEN <<>> ELSE Head(ss) \o Concat(Tail(ss))

RECURSIVE SeqsUpTo(_, _)
SeqsUpTo(S, n) ==
  IF n = 0 THEN {<<>>}
  ELSE LET shorter == SeqsUpTo(S, n - 1)
       IN shorter \cup {Append(s, x) : s \in {t \in shorter : Len(t) = n - 1}, x \in S}

\* Every enumeration order of every subset of S with at most n elements.
RECURSIVE Listings(_, _)
Listings(S, n) ==
  IF n = 0 THEN {<<>>}
  ELSE LET shorter == Listings(S, n - 1)
           longest == {t \in shorter : Len(t) = n - 1}
       IN shorter \cup
          {Append(q[1], q[2]) : q \in {r \in longest \X S : r[2] \notin Range(r[1])}}

----------------------------------------------------------------------------
(* Strings: a file name is a tuple of characters *)

EmptyString == <<>>

MdExtension == <<".", "m", "d">>

DigitValue ==
  "0" :> 0 @@ "1" :> 1 @@ "2" :> 2 @@ "3" :> 3 @@ "4" :> 4 @@
  "5" :> 5 @@ "6" :> 6 @@ "7" :> 7 @@ "8" :> 8 @@ "9" :> 9

IsDigit(c) == c \in DOMAIN DigitValue

\* UTF-16 code units: the order of Array.prototype.sort() without a comparator.
CodeUnit ==
  "-" :> 45 @@ "." :> 46 @@
  "0" :> 48 @@ "1" :> 49 @@ "2" :> 50 @@ "3" :> 51 @@ "4" :> 52 @@
  "5" :> 53 @@ "6" :> 54 @@ "7" :> 55 @@ "8" :> 56 @@ "9" :> 57 @@
  "_" :> 95 @@
  "a" :> 97 @@ "b" :> 98 @@ "c" :> 99 @@ "d" :> 100 @@ "m" :> 109

\* Primary collation weights of String.prototype.localeCompare (CLDR root
\* order: punctuation '_' '-' '.', then digits, then letters).
CollationWeight ==
  "_" :> 1 @@ "-" :> 2 @@ "." :> 3 @@
  "0" :> 10 @@ "1" :> 11 @@ "2" :> 12 @@ "3" :> 13 @@ "4" :> 14 @@
  "5" :> 15 @@ "6" :> 16 @@ "7" :> 17 @@ "8" :> 18 @@ "9" :> 19 @@
  "a" :> 30 @@ "b" :> 31 @@ "c" :> 32 @@ "d" :> 33 @@ "m" :> 42

\* Lexicographic comparison of two strings by the weights w: -1, 0 or 1.
RECURSIVE CompareBy(_, _, _)
CompareBy(a, b, w) ==
  IF a = <<>> /\ b = <<>> THEN 0
  ELSE IF a = <<>> THEN -1
  ELSE IF b = <<>> THEN 1
  ELSE IF w[Head(a)] < w[Head(b)] THEN -1
  ELSE IF w[Head(a)] > w[Head(b)] THEN 1
  ELSE CompareBy(Tail(a), Tail(b), w)

localeCompare(a, b) == CompareBy(a, b, CollationWeight)

\* The longest prefix of digits: the group (\d+) of /^(\d+)[-_]/.
RECURSIVE LeadingDigits(_)
LeadingDigits(s) ==
  IF s # <<>> /\ IsDigit(Head(s)) THEN <<Head(s)>> \o LeadingDigits(Tail(s)) ELSE <<>>

\* Number("0100") = 100.
RECURSIVE NumberOf(_)
NumberOf(digits) ==
  IF digits = <<>> THEN 0
  ELSE 10 * NumberOf(SubSeq(digits, 1, Len(digits) - 1)) + DigitValue[digits[Len(digits)]]

----------------------------------------------------------------------------
(* Issues *)

NoFile == <<>>

\* An issue: kind and ref stand for the message and the names it quotes;
\* line is 0 for an issue without a line.
makeIssueAt(level, category, kind, file, ref, line) ==
  [level |-> level, category |-> category, kind |-> kind, file |-> file, ref |-> ref,
   line |-> line]

makeIssue(level, category, kind, file, ref) == makeIssueAt(level, category, kind, file, ref, 0)

HasError(issues) == \E i \in DOMAIN issues : issues[i].level = "error"

----------------------------------------------------------------------------
(* Manuscript files *)

\* order: number | null
NullOrder == -1

ListValue == "<list>"

MetaKeys == {"status", "part", "part_title", "chapter", "chapter_title"}

NoMetadata == [k \in MetaKeys |-> Undefined]

STATUS_RANK ==
  "draft" :> 0 @@ "revise" :> 1 @@ "line-edit" :> 2 @@ "proof" :> 3 @@ "final" :> 4

isStageName(value) == value \in DOMAIN STATUS_RANK

RequiredMetadata == <<"status">>

\* A manuscript file: its base name, whether its header block lacks the
\* closing delimiter, the header fields it sets and the comment threads of
\* its appendix (none, unless set otherwise).
ManuscriptFile(name, broken, status, part, chapter) ==
  [name |-> name, broken |-> broken,
   metadata |-> [NoMetadata EXCEPT !["status"] = status, !["part"] = part, !["chapter"] = chapter],
   comments |-> <<>>]

FileUniverse ==
  { ManuscriptFile(<<"1","0","0","-","a">>, FALSE, "draft", "1", "1"),
    ManuscriptFile(<<"1","0","0","-","b">>, FALSE, "draft", Undefined, Undefined),
    ManuscriptFile(<<"1","0","0","_","a">>, FALSE, "final", Undefined, "2"),
    ManuscriptFile(<<"2","0","-","c">>, FALSE, "draft", Undefined, Undefined),
    ManuscriptFile(<<"0","2","0","-","c">>, FALSE, "revise", "2", Undefined),
    ManuscriptFile(<<"3","0","0","-","d">>, FALSE, Undefined, Undefined, "1"),
    ManuscriptFile(<<"2","0","0","-","b">>, FALSE, "bogus", Undefined, Undefined),
    ManuscriptFile(<<"a","-","b">>, FALSE, "draft", Undefined, Undefined),
    ManuscriptFile(<<"a","_","b">>, FALSE, "draft", Undefined, Undefined),
    ManuscriptFile(<<"7","a">>, TRUE, "draft", Undefined, Undefined) }

\* path.relative(repoRoot, chapterPath), without the directories every file
\* of one manuscript directory shares.
RelativePath(file) == file.name \o MdExtension

\* parseMetadata for the files of FileUniverse, whose header block is either
\* well formed or lacks the closing delimiter.
parseMetadata(file) ==
  IF file.broken
    THEN [metadata |-> NoMetadata,
          comments |-> file.comments,
          issues |-> <<makeIssue("error", "metadata", "missing-closing-delimiter",
                                 RelativePath(file), NoFile)>>]
    ELSE [metadata |-> file.metadata, comments |-> file.comments, issues |-> <<>>]

parseOrderFromFilename(name, relativePath) ==
  LET digits == LeadingDigits(name)
      matched == /\ digits # <<>>
                 /\ Len(name) > Len(digits)
                 /\ name[Len(digits) + 1] \in {"-", "_"}
  IN IF ~matched
       THEN [order |-> NullOrder,
             issues |-> <<makeIssue("error", "ordering", "missing-prefix", relativePath, NoFile)>>]
       ELSE [order |-> NumberOf(digits),
             issues |-> IF Len(digits) # 3
                          THEN <<makeIssue("warning", "ordering", "non-standard-prefix",
                                           relativePath, NoFile)>>
                          ELSE <<>>]

\* A slip: a list value is reported as a warning.
normalizeGroupingValueWarning(rawValue, relativePath, key) ==
  IF rawValue = Undefined \/ rawValue = ""
    THEN [value |-> Undefined, issues |-> <<>>]
  ELSE IF rawValue = ListValue
    THEN [value |-> Undefined,
          issues |-> <<makeIssue("warning", "metadata", "must-be-scalar", relativePath, <<key>>)>>]
  ELSE [value |-> rawValue, issues |-> <<>>]

normalizeGroupingValue(rawValue, relativePath, key) ==
  IF rawValue = Undefined \/ rawValue = ""
    THEN [value |-> Undefined, issues |-> <<>>]
  ELSE IF rawValue = ListValue
    THEN [value |-> Undefined,
          issues |-> <<makeIssue("error", "metadata", "must-be-scalar", relativePath, <<key>>)>>]
  ELSE [value |-> rawValue, issues |-> <<>>]

RECURSIVE RequiredMetadataIssues(_, _, _)
RequiredMetadataIssues(metadata, relativePath, keys) ==
  IF keys = <<>> THEN <<>>
  ELSE (IF metadata[Head(keys)] = Undefined \/ metadata[Head(keys)] = ""
          THEN <<makeIssue("warning", "metadata", "missing-required", relativePath, <<Head(keys)>>)>>
          ELSE <<>>)
       \o RequiredMetadataIssues(metadata, relativePath, Tail(keys))

RECURSIVE GroupingIssues(_, _, _)
GroupingIssues(metadata, relativePath, lvls) ==
  IF lvls = <<>> THEN <<>>
  ELSE normalizeGroupingValue(metadata[Head(lvls).key], relativePath, Head(lvls).key).issues
       \o (IF Head(lvls).titleKey # Undefined
             THEN normalizeGroupingValue(metadata[Head(lvls).titleKey], relativePath,
                                         Head(lvls).titleKey).issues
             ELSE <<>>)
       \o GroupingIssues(metadata, relativePath, Tail(lvls))

parseChapter(file, compileStructureLevels) ==
  LET relativePath == RelativePath(file)
      parsed == parseMetadata(file)
      metadata == parsed.metadata
      ordered == parseOrderFromFilename(file.name, relativePath)
      status == IF metadata["status"] = Undefined THEN "" ELSE metadata["status"]
      keys == {compileStructureLevels[i].key : i \in DOMAIN compileStructureLevels}
  IN [relativePath |-> relativePath,
      order |-> ordered.order,
      status |-> status,
      groupValues |-> [k \in keys |-> normalizeGroupingValue(metadata[k], relativePath, k).value],
      metadata |-> metadata,
      comments |-> parsed.comments,
      issues |-> parsed.issues
                 \o RequiredMetadataIssues(metadata, relativePath, RequiredMetadata)
                 \o ordered.issues
                 \o (IF status # "" /\ ~isStageName(status)
                       THEN <<makeIssue("error", "metadata", "invalid-status", relativePath, NoFile)>>
                       ELSE <<>>)
                 \o GroupingIssues(metadata, relativePath, compileStructureLevels)]

----------------------------------------------------------------------------
(* inspectProject *)

\* chapterFiles.sort(): ascending by UTF-16 code units of the path.
RECURSIVE InsertPath(_, _)
InsertPath(sorted, file) ==
  IF sorted = <<>> THEN <<file>>
  ELSE IF CompareBy(RelativePath(Head(sorted)), RelativePath(file), CodeUnit) > 0
    THEN <<file>> \o sorted
    ELSE <<Head(sorted)>> \o InsertPath(Tail(sorted), file)

RECURSIVE SortPaths(_)
SortPaths(files) ==
  IF files = <<>> THEN <<>>
  ELSE InsertPath(SortPaths(SubSeq(files, 1, Len(files) - 1)), files[Len(files)])

\* The comparator handed to chapters.sort.
CompareChapters(a, b) ==
  IF a.order = NullOrder /\ b.order = NullOrder
    THEN localeCompare(a.relativePath, b.relativePath)
  ELSE IF a.order = NullOrder THEN 1
  ELSE IF b.order = NullOrder THEN -1
  ELSE a.order - b.order

\* Array.prototype.sort is stable: an element goes before the first element
\* that compares greater, and so after every element it compares equal to.
RECURSIVE InsertChapter(_, _)
InsertChapter(sorted, chapter) ==
  IF sorted = <<>> THEN <<chapter>>
  ELSE IF CompareChapters(Head(sorted), chapter) > 0
    THEN <<chapter>> \o sorted
    ELSE <<Head(sorted)>> \o InsertChapter(Tail(sorted), chapter)

RECURSIVE SortChapters(_)
SortChapters(chapters) ==
  IF chapters = <<>> THEN <<>>
  ELSE InsertChapter(SortChapters(SubSeq(chapters, 1, Len(chapters) - 1)),
                     chapters[Len(chapters)])

\* orderMap.set(chapter.order, chapter.relativePath), reached only when the
\* key is not yet in the map.
OrderMapSet(orderMap, order, relativePath) == orderMap @@ (order :> relativePath)

\* A slip: a duplicate also replaces the path the map holds for its key.
RECURSIVE DuplicateOrderIssuesOverwriting(_, _)
DuplicateOrderIssuesOverwriting(chapters, orderMap) ==
  IF chapters = <<>> THEN <<>>
  ELSE LET chapter == Head(chapters)
       IN IF chapter.order = NullOrder
            THEN DuplicateOrderIssuesOverwriting(Tail(chapters), orderMap)
          ELSE IF chapter.order \in DOMAIN orderMap
            THEN <<makeIssue("error", "ordering", "duplicate-order",
                             chapter.relativePath, orderMap[chapter.order])>>
                 \o DuplicateOrderIssuesOverwriting(
                      Tail(chapters), (chapter.order :> chapter.relativePath) @@ orderMap)
          ELSE DuplicateOrderIssuesOverwriting(
                 Tail(chapters), OrderMapSet(orderMap, chapter.order, chapter.relativePath))

\* The loop over the chapters that fills orderMap and reports duplicates.
RECURSIVE DuplicateOrderIssues(_, _)
DuplicateOrderIssues(chapters, orderMap) ==
  IF chapters = <<>> THEN <<>>
  ELSE LET chapter == Head(chapters)
       IN IF chapter.order = NullOrder
            THEN DuplicateOrderIssues(Tail(chapters), orderMap)
          ELSE IF chapter.order \in DOMAIN orderMap
            THEN <<makeIssue("error", "ordering", "duplicate-order",
                             chapter.relativePath, orderMap[chapter.order])>>
                 \o DuplicateOrderIssues(Tail(chapters), orderMap)
          ELSE DuplicateOrderIssues(Tail(chapters),
                                    OrderMapSet(orderMap, chapter.order, chapter.relativePath))

EmptyOrderMap == [k \in {} |-> NoFile]

\* A slip: the listing is taken in the order readdirSync gave it.
ChapterFilesUnsorted(listing) == listing

\* readdirSync(...).filter(...).map(...).sort()
ChapterFiles(listing) == SortPaths(listing)

EmptyReport(issues, compileStructureLevels) ==
  [chapters |-> <<>>, issues |-> issues, compileStructureLevels |-> compileStructureLevels]

\* A slip: the issues of the files after the first file with an error are
\* left out.
RECURSIVE ChapterIssuesUntilError(_)
ChapterIssuesUntilError(chapters) ==
  IF chapters = <<>> THEN <<>>
  ELSE IF HasError(Head(chapters).issues) THEN Head(chapters).issues
  ELSE Head(chapters).issues \o ChapterIssuesUntilError(Tail(chapters))

\* for (const chapter of chapters) issues.push(...chapter.issues)
RECURSIVE ChapterIssues(_)
ChapterIssues(chapters) ==
  IF chapters = <<>> THEN <<>>
  ELSE Head(chapters).issues \o ChapterIssues(Tail(chapters))

\* spineSchema is what resolveSpineSchema(project) returned; its issues
\* open the list of issues, also when no manuscript file is found.
inspectProject(spineSchema, listing, compileStructureLevels) ==
  LET chapterFiles == ChapterFiles(listing)
      chapters == [i \in DOMAIN chapterFiles |->
                     parseChapter(chapterFiles[i], compileStructureLevels)]
  IN IF Len(chapterFiles) = 0
       THEN EmptyReport(spineSchema.issues
                        \o <<makeIssue("error", "structure", "no-manuscript-files", NoFile, NoFile)>>,
                        compileStructureLevels)
       ELSE [chapters |-> SortChapters(chapters),
             issues |-> spineSchema.issues
                        \o ChapterIssues(chapters)
                        \o DuplicateOrderIssues(chapters, EmptyOrderMap),
             compileStructureLevels |-> compileStructureLevels]

----------------------------------------------------------------------------
(* buildManuscript *)

CompileStructureLevel(key, label, titleKey, injectHeading, pageBreak) ==
  [key |-> key, label |-> label, titleKey |-> titleKey, injectHeading |-> injectHeading,
   headingTemplate |-> <<"{label}", "{value}", ":", "{title}">>, pageBreak |-> pageBreak]

ProjectMeta == [title |-> <<"Book">>, subtitle |-> <<>>, author |-> <<>>]

\* One element of the lines array: what it is, the grouping level index it
\* belongs to (0-based, -1 if none) and its text as a tuple of words.
Line(kind, level, text) == [kind |-> kind, level |-> level, text |-> text]

BlankLine == Line("blank", -1, <<>>)

toScalarMetadataString(rawValue) ==
  IF rawValue = Undefined \/ rawValue = "" \/ rawValue = ListValue THEN Undefined ELSE rawValue

\* The template with its placeholders replaced; an empty title leaves no word.
RECURSIVE ReplaceAll(_, _, _, _)
ReplaceAll(template, label, value, title) ==
  IF template = <<>> THEN <<>>
  ELSE (CASE Head(template) = "{label}" -> <<label>>
          [] Head(template) = "{value}" -> <<value>>
          [] Head(template) = "{title}" -> IF title = "" THEN <<>> ELSE <<title>>
          [] OTHER -> <<Head(template)>>)
       \o ReplaceAll(Tail(template), label, value, title)

\* .replace(/:\s*$/, "").trim()
StripTrailingColon(words) ==
  IF words # <<>> /\ words[Len(words)] = ":" THEN SubSeq(words, 1, Len(words) - 1) ELSE words

formatCompileStructureHeading(level, value, title) ==
  LET resolvedTitle == IF title = Undefined THEN "" ELSE title
  IN IF resolvedTitle = "" /\ level.headingTemplate = <<"{label}", "{value}", ":", "{title}">>
       THEN <<level.label, value>>
       ELSE StripTrailingColon(ReplaceAll(level.headingTemplate, level.label, value, resolvedTitle))

\* A slip: a missing value is not inherited.
CurrentValueNotInherited(explicitValue, previousValue) == explicitValue

\* const currentValue = explicitValue ?? previousValue
CurrentValue(explicitValue, previousValue) ==
  IF explicitValue # Undefined THEN explicitValue ELSE previousValue

\* A slip: a missing title is not inherited.
CurrentTitleNotInherited(explicitTitle, previousTitle) == explicitTitle

\* const currentTitle = explicitTitle ?? previousTitle
CurrentTitle(explicitTitle, previousTitle) ==
  IF explicitTitle # Undefined THEN explicitTitle ELSE previousTitle

\* A slip: a change of the enclosing level is not passed down.
ChangedByValueOnly(parentChanged, currentValue, previousValue) ==
  currentValue # previousValue

\* const changed = parentChanged || currentValue !== previousValue
Changed(parentChanged, currentValue, previousValue) ==
  parentChanged \/ currentValue # previousValue

\* A slip: one break per changed level, not one per document.
InsertsBreakPerLevel(level, chapterIndex, insertedBreakForEntry) ==
  level.pageBreak = "between-groups" /\ chapterIndex > 0

\* level.pageBreak === "between-groups" && chapterIndex > 0 && !insertedBreakForEntry
\* (chapterIndex counts from 0)
InsertsBreak(level, chapterIndex, insertedBreakForEntry) ==
  level.pageBreak = "between-groups" /\ chapterIndex > 0 /\ ~insertedBreakForEntry

\* if (!changed || !currentValue) { ...; continue; }
SkipsLevel(changed, currentValue) == ~changed \/ currentValue = Undefined

\* Math.min(6, 2 + levelIndex)
HeadingLevel(levelIndex) == IF 2 + levelIndex < 6 THEN 2 + levelIndex ELSE 6

\* The head of the file, up to the blank line after the table of contents.
HeaderLines(compileStructureLevels) ==
  <<Line("generated-comment", -1, <<>>), BlankLine,
    Line("title", -1, ProjectMeta.title), BlankLine>>
  \o (IF ProjectMeta.subtitle # <<>>
        THEN <<Line("subtitle", -1, ProjectMeta.subtitle), BlankLine>> ELSE <<>>)
  \o (IF ProjectMeta.author # <<>>
        THEN <<Line("author", -1, ProjectMeta.author), BlankLine>> ELSE <<>>)
  \o <<Line("generated", -1, <<>>), BlankLine,
       Line("toc-marker", -1, <<"Table", "of", "Contents">>), BlankLine>>
  \o (IF Len(compileStructureLevels) = 0
        THEN <<Line("toc", 0, <<"Manuscript">>)>> ELSE <<>>)
  \o <<BlankLine>>

\* A slip: the provenance comment is pushed before the heading.
EntryLinesSourceFirst(entry) ==
  <<Line("source", -1, entry.relativePath), BlankLine,
    Line("entry-heading", -1, entry.relativePath), BlankLine,
    Line("body", -1, entry.relativePath), BlankLine>>

\* The document's own heading, its provenance comment and its body.
EntryLines(entry) ==
  <<Line("entry-heading", -1, entry.relativePath), BlankLine,
    Line("source", -1, entry.relativePath), BlankLine,
    Line("body", -1, entry.relativePath), BlankLine>>

\* The body of the loop over the levels, for the level at levelIndex (from 1)
\* and on, for the chapter at chapterIndex (from 0).
RECURSIVE LevelLoop(_, _, _, _, _)
LevelLoop(st, entry, chapterIndex, compileStructureLevels, levelIndex) ==
  IF levelIndex > Len(compileStructureLevels) THEN st
  ELSE
    LET level == compileStructureLevels[levelIndex]
        explicitValue == entry.groupValues[level.key]
        previousValue == st.previousGroupValues[level.key]
        currentValue == CurrentValue(explicitValue, previousValue)
        explicitTitle == IF level.titleKey # Undefined
                           THEN toScalarMetadataString(entry.metadata[level.titleKey])
                           ELSE Undefined
        previousTitle == st.previousGroupTitles[level.key]
        currentTitle == CurrentTitle(explicitTitle, previousTitle)
        parentChanged == levelIndex > 1 /\ st.levelChanged[levelIndex - 1]
        changed == Changed(parentChanged, currentValue, previousValue)
        breaks == InsertsBreak(level, chapterIndex, st.insertedBreakForEntry)
        heading == formatCompileStructureHeading(level, currentValue, currentTitle)
        recorded == [st EXCEPT !.levelChanged = Append(@, changed),
                               !.currentValues = Append(@, currentValue),
                               !.currentTitles = Append(@, currentTitle),
                               !.previousGroupValues[level.key] = currentValue,
                               !.previousGroupTitles[level.key] = currentTitle]
    IN IF SkipsLevel(changed, currentValue)
         THEN LevelLoop(recorded, entry, chapterIndex, compileStructureLevels, levelIndex + 1)
         ELSE LevelLoop(
                [recorded EXCEPT
                   !.lines = @ \o (IF breaks THEN <<Line("newpage", levelIndex - 1, <<>>), BlankLine>>
                                   ELSE <<>>)
                               \o (IF level.injectHeading
                                     THEN <<Line("heading", levelIndex - 1, heading), BlankLine>>
                                     ELSE <<>>),
                   !.insertedBreakForEntry = @ \/ breaks,
                   !.tocEntries = IF level.injectHeading
                                    THEN Append(@, [level |-> levelIndex - 1, heading |-> heading])
                                    ELSE @],
                entry, chapterIndex, compileStructureLevels, levelIndex + 1)

\* The loop over the chapters, from the chapter at position next (from 1).
RECURSIVE ChapterLoop(_, _, _, _)
ChapterLoop(st, chapters, compileStructureLevels, next) ==
  IF next > Len(chapters) THEN st
  ELSE
    LET entry == chapters[next]
        grouped == LevelLoop([st EXCEPT !.insertedBreakForEntry = FALSE,
                                        !.levelChanged = <<>>,
                                        !.currentValues = <<>>,
                                        !.currentTitles = <<>>],
                             entry, next - 1, compileStructureLevels, 1)
    IN ChapterLoop(
         [grouped EXCEPT
            !.lines = @ \o EntryLines(entry),
            !.trace = Append(@, [levelChanged |-> grouped.levelChanged,
                                 currentValues |-> grouped.currentValues,
                                 currentTitles |-> grouped.currentTitles,
                                 insertedBreakForEntry |-> grouped.insertedBreakForEntry])],
         chapters, compileStructureLevels, next + 1)

\* lines.indexOf("## Table of Contents"), from 1; 0 if there is none.
TocStart(lines) ==
  IF \E i \in DOMAIN lines : lines[i].kind = "toc-marker"
    THEN CHOOSE i \in DOMAIN lines :
           lines[i].kind = "toc-marker" /\ \A j \in 1..(i - 1) : lines[j].kind # "toc-marker"
    ELSE 0

\* lines.splice(tocStart + 2, 0, ...tocLines)
SpliceToc(lines, tocEntries) ==
  LET tocStart == TocStart(lines)
      tocLines == [i \in DOMAIN tocEntries |->
                     Line("toc", tocEntries[i].level, tocEntries[i].heading)]
  IN IF Len(tocEntries) > 0 /\ tocStart > 0
       THEN SubSeq(lines, 1, tocStart + 1) \o tocLines \o SubSeq(lines, tocStart + 2, Len(lines))
       ELSE lines

NotWritten == [written |-> FALSE, lines |-> <<>>, tocEntries |-> <<>>, trace |-> <<>>]

buildManuscript(chapters, compileStructureLevels) ==
  LET keys == {compileStructureLevels[i].key : i \in DOMAIN compileStructureLevels}
      start == [lines |-> HeaderLines(compileStructureLevels),
                tocEntries |-> <<>>,
                previousGroupValues |-> [k \in keys |-> Undefined],
                previousGroupTitles |-> [k \in keys |-> Undefined],
                insertedBreakForEntry |-> FALSE,
                levelChanged |-> <<>>,
                currentValues |-> <<>>,
                currentTitles |-> <<>>,
                trace |-> <<>>]
      done == ChapterLoop(start, chapters, compileStructureLevels, 1)
  IN [written |-> TRUE,
      lines |-> SpliceToc(done.lines, done.tocEntries),
      tocEntries |-> done.tocEntries,
      trace |-> done.trace]

----------------------------------------------------------------------------
(* parseStegoCommentThreads *)

\* A line of the appendix: what the parser's regular expressions read from
\* it.  kind is one of
\*   "blank"         only white space
\*   "heading"       ### CMT-dddd, with its id
\*   "meta"          <!-- meta64: ... -->, with the payload it encodes
\*   "quote-header"  > _timestamp | author_
\*   "quote-empty"   > and white space
\*   "quote-text"    > and text that is no header
\*   "text"          anything else
\* text tells the lines' contents apart (0: none).
NoPayload == [json |-> "none", keys |-> {}, status |-> <<>>, hasStatus |-> FALSE]

AppendixLine(kind, id, text, payload) ==
  [kind |-> kind, id |-> id, text |-> text, payload |-> payload]

IsBlank(line) == line.kind = "blank"

\* /^###\s+(CMT-\d{4})\s*$/
IsHeading(line) == line.kind = "heading"

\* /^<!--\s*meta64:\s*(\S+)\s*-->\s*$/
IsMeta(line) == line.kind = "meta"

\* extractQuotedLine(raw) !== undefined
IsQuote(line) == line.kind \in {"quote-header", "quote-empty", "quote-text"}

\* parseThreadHeader(extractQuotedLine(raw)) is defined
IsThreadHeader(line) == line.kind = "quote-header"

\* extractQuotedLine(raw).trim().length === 0
IsEmptyQuote(line) == line.kind = "quote-empty"

\* String.prototype.toLowerCase, on the letters the statuses use.
LowerCase ==
  "O" :> "o" @@ "P" :> "p" @@ "E" :> "e" @@ "N" :> "n" @@ "R" :> "r" @@
  "S" :> "s" @@ "L" :> "l" @@ "V" :> "v" @@ "D" :> "d" @@ "C" :> "c"

toLowerCase(str) ==
  [i \in DOMAIN str |-> IF str[i] \in DOMAIN LowerCase THEN LowerCase[str[i]] ELSE str[i]]

RECURSIVE trimStart(_)
trimStart(str) == IF str # <<>> /\ Head(str) = " " THEN trimStart(Tail(str)) ELSE str

RECURSIVE trimEnd(_)
trimEnd(str) ==
  IF str # <<>> /\ str[Len(str)] = " " THEN trimEnd(SubSeq(str, 1, Len(str) - 1)) ELSE str

trim(str) == trimEnd(trimStart(str))

StatusOpen == <<"o", "p", "e", "n">>

StatusResolved == <<"r", "e", "s", "o", "l", "v", "e", "d">>

AllowedMetaKeys == {"status", "anchor", "paragraph_index", "signature", "excerpt"}

\* typeof parsed.status === "string" ? parsed.status.trim().toLowerCase() : ""
NormalizedStatus(payload) ==
  IF payload.hasStatus THEN toLowerCase(trim(payload.status)) ELSE <<>>

\* A slip: every status that is not empty passes.
AnyStatusIsValid(status) == status # <<>>

\* !(status !== "open" && status !== "resolved")
StatusIsValid(status) == status = StatusOpen \/ status = StatusResolved

\* decodeCommentMeta64: the decoded payload is what Buffer.from and
\* JSON.parse made of the text; Buffer.from does not throw.
decodeCommentMeta64(payload, commentId, relativePath, lineNumber) ==
  LET failed(kind) ==
        [ok |-> FALSE, resolved |-> FALSE,
         issues |-> <<makeIssueAt("error", "comments", kind, relativePath,
                                  <<commentId>>, lineNumber)>>]
      status == NormalizedStatus(payload)
  IN IF payload.json = "garbage" THEN failed("invalid-meta64-json")
     ELSE IF payload.json # "object" THEN failed("invalid-meta64-object")
     ELSE IF payload.keys \ AllowedMetaKeys # {} THEN failed("unsupported-meta64-key")
     ELSE IF ~StatusIsValid(status) THEN failed("invalid-meta64-status")
     ELSE [ok |-> TRUE, resolved |-> (status = StatusResolved), issues |-> <<>>]

\* while (index < rowLines.length) { skip blanks; skip one empty quote; break }
RECURSIVE SkipSeparator(_, _)
SkipSeparator(rowLines, rowIndex) ==
  IF rowIndex > Len(rowLines) THEN rowIndex
  ELSE IF IsBlank(rowLines[rowIndex]) THEN SkipSeparator(rowLines, rowIndex + 1)
  ELSE IF IsEmptyQuote(rowLines[rowIndex]) THEN rowIndex + 1
  ELSE rowIndex

\* The loop that collects the message lines of one thread entry.
RECURSIVE MessageLoop(_, _, _, _)
MessageLoop(rowLines, rowLineNumbers, relativePath, st) ==
  IF st.rowIndex > Len(rowLines) THEN st
  ELSE
    LET messageRaw == rowLines[st.rowIndex]
        advanced == [st EXCEPT !.rowIndex = @ + 1]
    IN IF IsBlank(messageRaw)
         THEN IF Len(st.messageLines) > 0 THEN advanced
              ELSE MessageLoop(rowLines, rowLineNumbers, relativePath, advanced)
       ELSE IF ~IsQuote(messageRaw)
         THEN LET reported ==
                    [advanced EXCEPT !.issues =
                       Append(@, makeIssueAt("error", "comments", "invalid-thread-line",
                                             relativePath, <<>>, rowLineNumbers[st.rowIndex]))]
              IN IF Len(st.messageLines) > 0 THEN reported
                 ELSE MessageLoop(rowLines, rowLineNumbers, relativePath, reported)
       ELSE IF IsThreadHeader(messageRaw) THEN st
       ELSE MessageLoop(rowLines, rowLineNumbers, relativePath,
                        [advanced EXCEPT !.messageLines =
                           Append(@, IF IsEmptyQuote(messageRaw) THEN 0 ELSE messageRaw.text)])

RECURSIVE PopEmptyLines(_)
PopEmptyLines(messageLines) ==
  IF messageLines # <<>> /\ messageLines[Len(messageLines)] = 0
    THEN PopEmptyLines(SubSeq(messageLines, 1, Len(messageLines) - 1))
    ELSE messageLines

\* messageLines.join("\n").trim(): empty lines at the start go too.
RECURSIVE JoinAndTrim(_)
JoinAndTrim(messageLines) ==
  IF messageLines # <<>> /\ Head(messageLines) = 0
    THEN JoinAndTrim(Tail(messageLines))
    ELSE PopEmptyLines(messageLines)

\* A slip: the guard lets a second entry through.
HasSecondMessageBlock(thread) == Len(thread) > 1

\* thread.length > 0
HasMessageBlock(thread) == Len(thread) > 0

\* The loop over the rows of one comment.
RECURSIVE RowLoop(_, _, _, _, _)
RowLoop(rowLines, rowLineNumbers, id, relativePath, st) ==
  IF st.rowIndex > Len(rowLines) THEN st
  ELSE
    LET rawRow == rowLines[st.rowIndex]
        lineNumber == rowLineNumbers[st.rowIndex]
        next == [st EXCEPT !.rowIndex = @ + 1]
        withIssue(kind, ref) ==
          [next EXCEPT !.issues =
             Append(@, makeIssueAt("error", "comments", kind, relativePath, ref, lineNumber))]
    IN IF IsBlank(rawRow)
         THEN RowLoop(rowLines, rowLineNumbers, id, relativePath, next)
       ELSE IF HasMessageBlock(st.thread)
         THEN [st EXCEPT !.issues =
                 Append(@, makeIssueAt("error", "comments", "multiple-message-blocks",
                                       relativePath, <<id>>, lineNumber))]
       ELSE IF ~st.sawMeta64
         THEN IF ~IsMeta(rawRow)
                THEN RowLoop(rowLines, rowLineNumbers, id, relativePath,
                             withIssue("invalid-metadata-row", <<>>))
                ELSE LET decoded == decodeCommentMeta64(rawRow.payload, id, relativePath,
                                                        lineNumber)
                     IN RowLoop(rowLines, rowLineNumbers, id, relativePath,
                                [next EXCEPT !.sawMeta64 = TRUE,
                                             !.issues = @ \o decoded.issues,
                                             !.hasResolved = @ \/ decoded.ok,
                                             !.resolved = IF decoded.ok THEN decoded.resolved
                                                          ELSE @])
       ELSE IF ~IsQuote(rawRow)
         THEN RowLoop(rowLines, rowLineNumbers, id, relativePath,
                      withIssue("invalid-thread-header", <<>>))
       ELSE IF ~IsThreadHeader(rawRow)
         THEN RowLoop(rowLines, rowLineNumbers, id, relativePath,
                      withIssue("invalid-thread-header-format", <<>>))
       ELSE
         LET collected ==
               MessageLoop(rowLines, rowLineNumbers, relativePath,
                           [rowIndex |-> SkipSeparator(rowLines, st.rowIndex + 1),
                            messageLines |-> <<>>,
                            issues |-> st.issues])
             messageLines == PopEmptyLines(collected.messageLines)
             after == [st EXCEPT !.rowIndex = collected.rowIndex,
                                 !.issues = collected.issues]
         IN IF Len(messageLines) = 0
              THEN RowLoop(rowLines, rowLineNumbers, id, relativePath,
                           [after EXCEPT !.issues =
                              Append(@, makeIssueAt("error", "comments", "missing-message-text",
                                                    relativePath, <<id>>, lineNumber))])
              ELSE RowLoop(rowLines, rowLineNumbers, id, relativePath,
                           [after EXCEPT !.thread =
                              Append(@, [header |-> rawRow.text,
                                         message |-> JoinAndTrim(messageLines)])])

\* The first line at or after index that is a heading; Len + 1 if none.
RECURSIVE NextHeading(_, _)
NextHeading(lines, index) ==
  IF index > Len(lines) \/ IsHeading(lines[index]) THEN index
  ELSE NextHeading(lines, index + 1)

\* A slip: a comment without thread entries is dropped.
PushCommentIfAnyEntry(comments, id, resolved, thread) ==
  IF thread = <<>> THEN comments
  ELSE Append(comments, [id |-> id, resolved |-> resolved, thread |-> thread])

\* comments.push({ id, resolved: Boolean(resolved), thread })
PushComment(comments, id, resolved, thread) ==
  Append(comments, [id |-> id, resolved |-> resolved, thread |-> thread])

\* The loop over the lines of the appendix, from the line at index (from 1);
\* line i of the block is line baseLine + i - 1 of the file.
RECURSIVE ThreadsLoop(_, _, _, _, _)
ThreadsLoop(lines, relativePath, baseLine, index, acc) ==
  IF index > Len(lines) THEN acc
  ELSE IF IsBlank(lines[index])
    THEN ThreadsLoop(lines, relativePath, baseLine, index + 1, acc)
  ELSE IF ~IsHeading(lines[index])
    THEN ThreadsLoop(lines, relativePath, baseLine, index + 1,
                     [acc EXCEPT !.issues =
                        Append(@, makeIssueAt("error", "comments", "invalid-appendix-line",
                                              relativePath, <<>>, baseLine + index - 1))])
  ELSE
    LET id == lines[index].id
        stop == NextHeading(lines, index + 1)
        rowLines == SubSeq(lines, index + 1, stop - 1)
        rowLineNumbers == [r \in DOMAIN rowLines |-> baseLine + index + r - 1]
        parsed == RowLoop(rowLines, rowLineNumbers, id, relativePath,
                          [rowIndex |-> 1, hasResolved |-> FALSE, resolved |-> FALSE,
                           sawMeta64 |-> FALSE, thread |-> <<>>, issues |-> acc.issues])
        withMeta ==
          IF ~parsed.sawMeta64
            THEN Append(parsed.issues,
                        makeIssueAt("error", "comments", "missing-metadata-row",
                                    relativePath, <<id>>, 0))
            ELSE parsed.issues
        withThread ==
          IF Len(parsed.thread) = 0
            THEN Append(withMeta,
                        makeIssueAt("error", "comments", "missing-thread-entries",
                                    relativePath, <<id>>, 0))
            ELSE withMeta
    IN ThreadsLoop(lines, relativePath, baseLine, stop,
                   [comments |-> PushComment(acc.comments, id,
                                             parsed.hasResolved /\ parsed.resolved,
                                             parsed.thread),
                    issues |-> withThread])

parseStegoCommentThreads(lines, relativePath, baseLine) ==
  ThreadsLoop(lines, relativePath, baseLine, 1, [comments |-> <<>>, issues |-> <<>>])

----------------------------------------------------------------------------
(* parseStegoCommentsAppendix *)

\* A body is the sequence of its lines, as body.split(/\r?\n/) gives them;
\* eol is the line ending that follows the line ("LF", "CRLF", and "None"
\* after the last line).  The empty body is one empty line.  Lines of kind
\* "blank" are empty, lines of kind "space" hold white space only; "start"
\* and "end" are the marker lines.
BodyLine(kind, id, text, eol) ==
  [kind |-> kind, id |-> id, text |-> text, payload |-> NoPayload, eol |-> eol]

EmptyBody == <<BodyLine("blank", EmptyString, 0, "None")>>

\* line.trim().length === 0
TrimsToNothing(line) == line.kind \in {"blank", "space"}

\* body.includes("\r\n") ? "\r\n" : "\n"
LineEndingOf(body) ==
  IF \E i \in DOMAIN body : body[i].eol = "CRLF" THEN "CRLF" ELSE "LF"

\* findTrimmedLineIndexes(lines, marker), indexes from 1
findTrimmedLineIndexes(lines, marker) ==
  SelectSeq([i \in DOMAIN lines |-> i], LAMBDA i : lines[i].kind = marker)

\* lines.join(lineEnding)
JoinLines(lines, lineEnding) ==
  IF lines = <<>> THEN EmptyBody
  ELSE [i \in DOMAIN lines |->
          [lines[i] EXCEPT !.eol = IF i = Len(lines) THEN "None" ELSE lineEnding]]

\* while (kept.length > 0 && kept[kept.length - 1].trim().length === 0) kept.pop()
RECURSIVE PopTrailingBlank(_)
PopTrailingBlank(kept) ==
  IF kept # <<>> /\ TrimsToNothing(kept[Len(kept)])
    THEN PopTrailingBlank(SubSeq(kept, 1, Len(kept) - 1))
    ELSE kept

\* A slip: the line before the start marker goes whatever it holds.
RemoveStartAlways(lines, start) == IF start > 1 THEN start - 1 ELSE start

\* removeStart: the start marker, or the blank line right before it.
RemoveStart(lines, start) ==
  IF start > 1 /\ TrimsToNothing(lines[start - 1]) THEN start - 1 ELSE start

\* A slip: only the start marker is counted.
StartMarkerCountIssues(startIndexes, endIndexes, relativePath) ==
  IF Len(startIndexes) # 1
    THEN <<makeIssue("error", "comments", "expected-one-start-marker", relativePath, <<>>)>>
    ELSE <<>>

\* The issues of the branch startIndexes.length !== 1 || endIndexes.length !== 1.
MarkerCountIssues(startIndexes, endIndexes, relativePath) ==
  (IF Len(startIndexes) # 1
     THEN <<makeIssue("error", "comments", "expected-one-start-marker", relativePath, <<>>)>>
     ELSE <<>>)
  \o (IF Len(endIndexes) # 1
        THEN <<makeIssue("error", "comments", "expected-one-end-marker", relativePath, <<>>)>>
        ELSE <<>>)

\* Line i of the body (from 1) is line bodyStartLine + i - 1 of the file.
parseStegoCommentsAppendix(body, relativePath, bodyStartLine) ==
  LET lineEnding == LineEndingOf(body)
      lines == body
      startIndexes == findTrimmedLineIndexes(lines, "start")
      endIndexes == findTrimmedLineIndexes(lines, "end")
      unchanged(issues) ==
        [bodyWithoutComments |-> body, comments |-> <<>>, issues |-> issues]
  IN IF Len(startIndexes) = 0 /\ Len(endIndexes) = 0 THEN unchanged(<<>>)
     ELSE IF Len(startIndexes) # 1 \/ Len(endIndexes) # 1
       THEN unchanged(MarkerCountIssues(startIndexes, endIndexes, relativePath))
     ELSE
       LET start == startIndexes[1]
           end == endIndexes[1]
       IN IF end <= start
            THEN unchanged(<<makeIssueAt("error", "comments", "end-before-start",
                                         relativePath, <<>>, bodyStartLine + end - 1)>>)
            ELSE
              LET parsed == parseStegoCommentThreads(SubSeq(lines, start + 1, end - 1),
                                                     relativePath, bodyStartLine + start)
                  removeStart == RemoveStart(lines, start)
                  kept == PopTrailingBlank(SubSeq(lines, 1, removeStart - 1)
                                           \o SubSeq(lines, end + 1, Len(lines)))
              IN [bodyWithoutComments |-> JoinLines(kept, lineEnding),
                  comments |-> parsed.comments,
                  issues |-> parsed.issues]

----------------------------------------------------------------------------
(* parseMetadata, on the text of a file *)

\* The text of a file is the sequence of its lines, as for a body.  Further
\* kinds of line:
\*   "delimiter"       the three characters ---
\*   "delimiter-more"  --- and more characters on the same line
\*   "pair"            key: value, with a plain scalar value; id is the key
\*   "pair-ref"        key: [CHAR-MIRA], a list value that names an identifier
\*   "remainder"       what follows --- on a "delimiter-more" line
\* Lines of the other kinds hold no colon but the marker lines, which read as
\* the key "<!-- stego-comments" with a value.
NoHeaderMap == [key \in {} |-> 0]

\* metadata[key] = value
SetMetadata(metadata, key, value) ==
  [k \in DOMAIN metadata \cup {key} |-> IF k = key THEN value ELSE metadata[k]]

\* raw.startsWith("---\n") || raw.startsWith("---\r\n")
StartsWithDelimiter(raw) == raw[1].kind = "delimiter" /\ raw[1].eol # "None"

\* Where /^---\r?\n([\s\S]*?)\r?\n---\r?\n?/ ends its match: the first line
\* after the second that starts with ---; 0 if the expression does not match.
ClosingLine(raw) ==
  LET closing == {k \in 3..Len(raw) : raw[k].kind \in {"delimiter", "delimiter-more"}}
  IN IF closing = {} THEN 0 ELSE CHOOSE k \in closing : \A j \in closing : k <= j

\* Lines of a header block may also be of these kinds:
\*   "key-empty"      key: with nothing after the colon; id is the key
\*   "item"           an indented line "- value" without colon; text is the value
\*   "indented-text"  an indented line without colon that does not start with "- "
\*   "indented-pair"  an indented line key: value; id is the key
\* Lines of every other kind start in the first column.

\* line.indexOf(":") !== -1
HasSeparator(line) ==
  line.kind \in {"pair", "pair-ref", "start", "end", "key-empty", "indented-pair"}

\* line.slice(0, separatorIndex).trim()
KeyOf(line) ==
  IF line.kind \in {"pair", "pair-ref", "key-empty", "indented-pair"}
    THEN line.id
    ELSE "<!-- stego-comments"

\* !line || line.startsWith("#")
IsSkipped(line) == line.kind \in {"blank", "space", "comment"}

\* !value
HasEmptyValue(line) == line.kind = "key-empty"

\* candidateRaw.length - candidateRaw.trimStart().length > 0
IsIndented(line) == line.kind \in {"item", "indented-text", "indented-pair"}

\* candidateTrimmed.startsWith("- ")
StartsWithDash(line) == line.kind = "item"

\* The first line from lookahead on that is not skipped; Len(lines) + 1 if
\* there is none.
RECURSIVE Lookahead(_, _)
Lookahead(lines, lookahead) ==
  IF lookahead > Len(lines) THEN lookahead
  ELSE IF IsSkipped(lines[lookahead]) THEN Lookahead(lines, lookahead + 1)
  ELSE lookahead

\* A slip: the indented line that is not an item is passed over in silence.
UnsupportedLineIssuesNone(relativePath, j) == <<>>

\* The error for the indented line j of a list that does not start with "- ".
UnsupportedLineIssues(relativePath, j) ==
  <<makeIssueAt("error", "metadata", "unsupported-list-line", relativePath, <<>>, j)>>

\* The loop over the lines of a block list, from its first item on: items is
\* the list, next the line at which the loop over the header goes on.
RECURSIVE ListLoop(_, _, _, _)
ListLoop(lines, relativePath, j, acc) ==
  IF j > Len(lines) THEN [acc EXCEPT !.next = j]
  ELSE IF IsSkipped(lines[j]) THEN ListLoop(lines, relativePath, j + 1, acc)
  ELSE IF ~IsIndented(lines[j]) THEN [acc EXCEPT !.next = j]
  ELSE IF ~StartsWithDash(lines[j])
    THEN ListLoop(lines, relativePath, j + 1,
                  [acc EXCEPT !.issues = @ \o UnsupportedLineIssues(relativePath, j)])
  ELSE ListLoop(lines, relativePath, j + 1,
                [acc EXCEPT !.items = Append(@, lines[j].text)])

\* firstValueIndent > 0 && firstValueTrimmed.startsWith("- ")
OpensList(lines, i) ==
  /\ HasEmptyValue(lines[i])
  /\ LET lookahead == Lookahead(lines, i + 1)
     IN /\ lookahead <= Len(lines)
        /\ IsIndented(lines[lookahead])
        /\ StartsWithDash(lines[lookahead])

\* The loop over the lines of the header block; line i of the block (from 1)
\* is reported as line i.  A scalar value is the text of its line (0 for the
\* empty value), a list value the sequence of its items.
RECURSIVE HeaderLoop(_, _, _, _)
HeaderLoop(lines, relativePath, i, acc) ==
  IF i > Len(lines) THEN acc
  ELSE IF IsSkipped(lines[i]) THEN HeaderLoop(lines, relativePath, i + 1, acc)
  ELSE IF ~HasSeparator(lines[i])
    THEN HeaderLoop(lines, relativePath, i + 1,
                    [acc EXCEPT !.issues =
                       Append(@, makeIssueAt("error", "metadata", "invalid-metadata-line",
                                             relativePath, <<>>, i))])
  ELSE IF OpensList(lines, i)
    THEN LET list == ListLoop(lines, relativePath, Lookahead(lines, i + 1),
                              [items |-> <<>>, issues |-> acc.issues, next |-> 0])
         IN HeaderLoop(lines, relativePath, list.next,
                       [metadata |-> SetMetadata(acc.metadata, KeyOf(lines[i]), list.items),
                        issues |-> list.issues])
  ELSE HeaderLoop(lines, relativePath, i + 1,
                  [acc EXCEPT !.metadata = SetMetadata(@, KeyOf(lines[i]), lines[i].text)])

\* raw.slice(match[0].length): the text after the closing --- and the line
\* ending after it, if one follows at once.
BodyAfter(raw, closing) ==
  IF raw[closing].kind = "delimiter-more"
    THEN <<BodyLine("remainder", EmptyString, closing, raw[closing].eol)>>
         \o SubSeq(raw, closing + 1, Len(raw))
  ELSE IF closing = Len(raw) THEN EmptyBody
  ELSE SubSeq(raw, closing + 1, Len(raw))

\* match[0].split(/\r?\n/).length
BodyStartLine(raw, closing) ==
  IF raw[closing].kind = "delimiter" /\ closing < Len(raw) THEN closing + 1 ELSE closing

\* A slip: the missing block is reported whether required or not.
MissingBlockIssuesAlways(required, relativePath) ==
  <<makeIssue("error", "metadata", "missing-metadata-block", relativePath, <<>>)>>

MissingBlockIssues(required, relativePath) ==
  IF required
    THEN <<makeIssue("error", "metadata", "missing-metadata-block", relativePath, <<>>)>>
    ELSE <<>>

parseMetadataText(raw, relativePath, required) ==
  IF ~StartsWithDelimiter(raw)
    THEN LET commentsResult == parseStegoCommentsAppendix(raw, relativePath, 1)
         IN [metadata |-> NoHeaderMap,
             body |-> commentsResult.bodyWithoutComments,
             comments |-> commentsResult.comments,
             issues |-> MissingBlockIssues(required, relativePath) \o commentsResult.issues]
  ELSE IF ClosingLine(raw) = 0
    THEN [metadata |-> NoHeaderMap,
          body |-> raw,
          comments |-> <<>>,
          issues |-> <<makeIssue("error", "metadata", "missing-closing-delimiter",
                                 relativePath, <<>>)>>]
  ELSE
    LET closing == ClosingLine(raw)
        header == HeaderLoop(SubSeq(raw, 2, closing - 1), relativePath, 1,
                             [metadata |-> NoHeaderMap, issues |-> <<>>])
        commentsResult == parseStegoCommentsAppendix(BodyAfter(raw, closing), relativePath,
                                                     BodyStartLine(raw, closing))
    IN [metadata |-> header.metadata,
        body |-> commentsResult.bodyWithoutComments,
        comments |-> commentsResult.comments,
        issues |-> header.issues \o commentsResult.issues]

----------------------------------------------------------------------------
(* extractReferenceIds *)

\* A header value: null or undefined, a string, or an array of strings (the
\* header parser makes no other entries); strings are tuples of characters.
NullValue == [type |-> "null", text |-> <<>>, entries |-> <<>>]

StringValue(text) == [type |-> "string", text |-> text, entries |-> <<>>]

ArrayValue(entries) == [type |-> "array", text |-> <<>>, entries |-> entries]

\* The characters of [A-Z0-9-].
IdCharacters ==
  {"A", "B", "C", "D", "E", "F", "G", "H", "I", "J", "K", "L", "M", "N", "O", "P", "Q",
   "R", "S", "T", "U", "V", "W", "X", "Y", "Z",
   "0", "1", "2", "3", "4", "5", "6", "7", "8", "9", "-"}

\* { key, prefix, notesFile, idPattern }; idPattern is ^prefix-[A-Z0-9-]+$.
SpineCategory(key, prefix, notesFile) == [key |-> key, prefix |-> prefix, notesFile |-> notesFile]

\* category.idPattern.test(id)
idPatternTest(category, id) ==
  LET head == category.prefix \o <<"-">>
  IN /\ Len(id) > Len(head)
     /\ SubSeq(id, 1, Len(head)) = head
     /\ \A i \in (Len(head) + 1)..Len(id) : id[i] \in IdCharacters

\* A slip: the ids are collected in an array.
PushId(ids, id) == Append(ids, id)

\* ids.add(id), the set in insertion order
AddId(ids, id) == IF id \in Range(ids) THEN ids ELSE Append(ids, id)

\* The loop over the entries of one array value.
RECURSIVE EntriesLoop(_, _, _, _)
EntriesLoop(entries, category, relativePath, acc) ==
  IF entries = <<>> THEN acc
  ELSE
    LET id == trim(Head(entries))
    IN EntriesLoop(Tail(entries), category, relativePath,
         IF ~idPatternTest(category, id)
           THEN [acc EXCEPT !.issues =
                   Append(@, makeIssue("error", "metadata", "invalid-reference", relativePath,
                                       <<category.key, id>>))]
           ELSE [acc EXCEPT !.ids = AddId(@, id)])

\* The loop over the categories.
RECURSIVE CategoriesLoop(_, _, _, _)
CategoriesLoop(metadata, relativePath, spineCategories, acc) ==
  IF spineCategories = <<>> THEN acc
  ELSE
    LET category == Head(spineCategories)
        rawValue == IF category.key \in DOMAIN metadata THEN metadata[category.key]
                    ELSE NullValue
        rest == Tail(spineCategories)
    IN IF rawValue.type = "null" \/ (rawValue.type = "string" /\ rawValue.text = <<>>)
         THEN CategoriesLoop(metadata, relativePath, rest, acc)
       ELSE IF rawValue.type # "array"
         THEN CategoriesLoop(metadata, relativePath, rest,
                [acc EXCEPT !.issues =
                   Append(@, makeIssue("error", "metadata", "must-be-array", relativePath,
                                       <<category.key>>))])
       ELSE CategoriesLoop(metadata, relativePath, rest,
                           EntriesLoop(rawValue.entries, category, relativePath, acc))

extractReferenceIds(metadata, relativePath, spineCategories) ==
  CategoriesLoop(metadata, relativePath, spineCategories, [ids |-> <<>>, issues |-> <<>>])

----------------------------------------------------------------------------
(* findInlineSpineIdMentions *)

CharMira == <<"C", "H", "A", "R", "-", "M", "I", "R", "A">>

LocInn == <<"L", "O", "C", "-", "I", "N", "N">>

\* The words of a line that have the shape of an identifier, in order.  A
\* line of kind "mention" names CHAR-MIRA once among other words, a line of
\* kind "mention-twice" names CHAR-MIRA and LOC-INN, and a header line of
\* kind "pair-ref" names CHAR-MIRA in its value.
IdentifiersOf(line) ==
  IF line.kind \in {"mention", "pair-ref"} THEN <<CharMira>>
  ELSE IF line.kind = "mention-twice" THEN <<CharMira, LocInn>>
  ELSE <<>>

\* buildInlineIdRegex: null without categories, else the expression
\* \b(?:prefixes)-[A-Z0-9-]+\b with the flag g, kept as its prefixes.
NullRegex == [null |-> TRUE, prefixes |-> {}]

buildInlineIdRegex(categories) ==
  IF Len(categories) = 0 THEN NullRegex
  ELSE [null |-> FALSE, prefixes |-> {categories[i].prefix : i \in DOMAIN categories}]

\* One word has the shape \b(?:prefixes)-[A-Z0-9-]+\b.
RegexMatches(inlineIdRegex, word) ==
  \E prefix \in inlineIdRegex.prefixes : idPatternTest([prefix |-> prefix], word)

\* lines[index].match(inlineIdRegex): the identifiers with one of the prefixes
RECURSIVE MatchesAmong(_, _)
MatchesAmong(words, inlineIdRegex) ==
  IF words = <<>> THEN <<>>
  ELSE (IF RegexMatches(inlineIdRegex, Head(words)) THEN <<Head(words)>> ELSE <<>>)
       \o MatchesAmong(Tail(words), inlineIdRegex)

LineMatches(line, inlineIdRegex) == MatchesAmong(IdentifiersOf(line), inlineIdRegex)

\* for (const id of matches) issues.push(...)
MatchIssues(matches, relativePath, lineNumber) ==
  [m \in DOMAIN matches |->
     makeIssueAt("error", "continuity", "inline-id", relativePath, <<matches[m]>>, lineNumber)]

\* The loop over the lines of the body; line index (from 1) is reported as
\* line index.
RECURSIVE MentionsLoop(_, _, _, _)
MentionsLoop(lines, relativePath, inlineIdRegex, index) ==
  IF index > Len(lines) THEN <<>>
  ELSE MatchIssues(LineMatches(lines[index], inlineIdRegex), relativePath, index)
       \o MentionsLoop(lines, relativePath, inlineIdRegex, index + 1)

findInlineSpineIdMentions(body, relativePath, inlineIdRegex) ==
  IF inlineIdRegex.null THEN <<>>
  ELSE MentionsLoop(body, relativePath, inlineIdRegex, 1)

----------------------------------------------------------------------------
(* resolveSpineSchema *)

RESERVED_COMMENT_PREFIX == <<"C", "M", "T">>

LowerLetters ==
  {"a", "b", "c", "d", "e", "f", "g", "h", "i", "j", "k", "l", "m", "n", "o", "p", "q",
   "r", "s", "t", "u", "v", "w", "x", "y", "z"}

UpperLetters == IdCharacters \ ({"-"} \cup DOMAIN DigitValue)

UpperCase ==
  "c" :> "C" @@ "m" :> "M" @@ "t" :> "T" @@ "h" :> "H" @@ "a" :> "A" @@ "r" :> "R" @@
  "l" :> "L" @@ "o" :> "O"

toUpperCase(str) ==
  [i \in DOMAIN str |-> IF str[i] \in DOMAIN UpperCase THEN UpperCase[str[i]] ELSE str[i]]

\* /^[a-z][a-z0-9_-]*$/.test(key)
KeyPatternTest(key) ==
  /\ key # <<>>
  /\ key[1] \in LowerLetters
  /\ \A i \in 2..Len(key) : key[i] \in LowerLetters \cup DOMAIN DigitValue \cup {"_", "-"}

\* /^[A-Z][A-Z0-9-]*$/.test(prefix)
PrefixPatternTest(prefix) ==
  /\ prefix # <<>>
  /\ prefix[1] \in UpperLetters
  /\ \A i \in 2..Len(prefix) : prefix[i] \in IdCharacters

\* /^[A-Za-z0-9._-]+\.md$/.test(notesFile)
NotesFilePatternTest(notesFile) ==
  /\ Len(notesFile) > Len(MdExtension)
  /\ SubSeq(notesFile, Len(notesFile) - Len(MdExtension) + 1, Len(notesFile)) = MdExtension
  /\ \A i \in 1..(Len(notesFile) - Len(MdExtension)) :
       notesFile[i] \in LowerLetters \cup IdCharacters \cup {".", "_"}

\* An entry of the declared list: a plain object with the three fields (a
\* field that is not a string reads as the empty string), or anything else.
CategoryEntry(key, prefix, notesFile) ==
  [object |-> TRUE, key |-> key, prefix |-> prefix, notesFile |-> notesFile]

NotAnObject == [object |-> FALSE, key |-> <<>>, prefix |-> <<>>, notesFile |-> <<>>]

\* project.meta.spineCategories: absent, an array or some other value
NoCategories == [type |-> "null", entries |-> <<>>]

NotAnArray == [type |-> "other", entries |-> <<>>]

CategoryArray(entries) == [type |-> "array", entries |-> entries]

ProjectFile == <<"stego-project.json">>

\* `${index}` for an index below ten
IndexText(index) == <<CHOOSE c \in DOMAIN DigitValue : DigitValue[c] = index>>

SchemaIssue(kind, ref) == makeIssue("error", "metadata", kind, ProjectFile, ref)

\* A slip: the prefixes already accepted are not looked at.
PrefixNeverSeen(prefixSet, prefix) == FALSE

\* prefixSet.has(prefix)
PrefixSeen(prefixSet, prefix) == prefix \in prefixSet

\* One pass of the loop over rawCategories.entries(): the first test that
\* fails pushes its error and continues with the next entry.
SchemaStep(acc, entry, index) ==
  LET key == trim(entry.key)
      prefix == trim(entry.prefix)
      notesFile == trim(entry.notesFile)
      rejected(kind, ref) == [acc EXCEPT !.issues = Append(@, SchemaIssue(kind, ref))]
  IN IF ~entry.object THEN rejected("invalid-entry", <<IndexText(index - 1)>>)
     ELSE IF ~KeyPatternTest(key) THEN rejected("invalid-key", <<key>>)
     ELSE IF ~PrefixPatternTest(prefix) THEN rejected("invalid-prefix", <<prefix>>)
     ELSE IF toUpperCase(prefix) = RESERVED_COMMENT_PREFIX
       THEN rejected("reserved-prefix", <<prefix>>)
     ELSE IF ~NotesFilePatternTest(notesFile) THEN rejected("invalid-notes-file", <<notesFile>>)
     ELSE IF key \in acc.keySet THEN rejected("duplicate-key", <<key>>)
     ELSE IF PrefixSeen(acc.prefixSet, prefix) THEN rejected("duplicate-prefix", <<prefix>>)
     ELSE IF notesFile \in acc.notesSet THEN rejected("duplicate-notes-file", <<notesFile>>)
     ELSE [categories |-> Append(acc.categories, SpineCategory(key, prefix, notesFile)),
           keySet |-> acc.keySet \cup {key},
           prefixSet |-> acc.prefixSet \cup {prefix},
           notesSet |-> acc.notesSet \cup {notesFile},
           issues |-> acc.issues]

RECURSIVE SchemaLoop(_, _, _)
SchemaLoop(entries, index, acc) ==
  IF index > Len(entries) THEN acc
  ELSE SchemaLoop(entries, index + 1, SchemaStep(acc, entries[index], index))

\* Returns [categories, inlineIdRegex, issues].
resolveSpineSchema(rawCategories) ==
  IF rawCategories.type = "null"
    THEN [categories |-> <<>>, inlineIdRegex |-> NullRegex, issues |-> <<>>]
  ELSE IF rawCategories.type # "array"
    THEN [categories |-> <<>>, inlineIdRegex |-> NullRegex,
          issues |-> <<SchemaIssue("spine-categories-not-array", <<>>)>>]
  ELSE LET done == SchemaLoop(rawCategories.entries, 1,
                              [categories |-> <<>>, keySet |-> {}, prefixSet |-> {},
                               notesSet |-> {}, issues |-> <<>>])
       IN [categories |-> done.categories,
           inlineIdRegex |-> buildInlineIdRegex(done.categories),
           issues |-> done.issues]

----------------------------------------------------------------------------
(* resolveCompileStructure *)

PageBreakNone == <<"n", "o", "n", "e">>

PageBreakBetweenGroups ==
  <<"b", "e", "t", "w", "e", "e", "n", "-", "g", "r", "o", "u", "p", "s">>

\* An entry of compileStructure.levels: a plain object (a field that is not
\* a string reads as the empty string, a pageBreak that is not a string is
\* flagged by hasPageBreak = FALSE), or anything else.
LevelEntry(key, label, titleKey, hasPageBreak, pageBreak) ==
  [object |-> TRUE, key |-> key, label |-> label, titleKey |-> titleKey,
   hasPageBreak |-> hasPageBreak, pageBreak |-> pageBreak]

NotALevelObject ==
  [object |-> FALSE, key |-> <<>>, label |-> <<>>, titleKey |-> <<>>,
   hasPageBreak |-> FALSE, pageBreak |-> <<>>]

\* project.meta.compileStructure: absent, not an object, an object whose
\* levels is not an array, or an object with an array of levels
NoCompileStructure == [type |-> "null", levelsIsArray |-> FALSE, entries |-> <<>>]

CompileStructureNotObject == [type |-> "other", levelsIsArray |-> FALSE, entries |-> <<>>]

LevelsNotArray == [type |-> "object", levelsIsArray |-> FALSE, entries |-> <<>>]

CompileStructureOf(entries) == [type |-> "object", levelsIsArray |-> TRUE, entries |-> entries]

StructureIssue(kind, ref) == makeIssue("error", "metadata", kind, ProjectFile, ref)

\* A slip: every page break mode is let through.
AnyPageBreakAllowed(pageBreakRaw) == TRUE

\* pageBreakRaw === "none" || pageBreakRaw === "between-groups"
PageBreakAllowed(pageBreakRaw) == pageBreakRaw \in {PageBreakNone, PageBreakBetweenGroups}

\* One pass of the loop over rawLevels.entries().
StructureStep(acc, entry, index) ==
  LET key == trim(entry.key)
      label == trim(entry.label)
      titleKeyRaw == trim(entry.titleKey)
      pageBreakRaw == IF entry.hasPageBreak THEN trim(entry.pageBreak) ELSE PageBreakNone
      at == IndexText(index - 1)
      rejected(kind, ref) == [acc EXCEPT !.issues = Append(@, StructureIssue(kind, ref))]
  IN IF ~entry.object THEN rejected("invalid-level", <<at>>)
     ELSE IF key = <<>> \/ ~KeyPatternTest(key) THEN rejected("invalid-level-key", <<at>>)
     ELSE IF label = <<>> THEN rejected("label-required", <<at>>)
     ELSE IF key \in acc.seenKeys THEN rejected("duplicate-level-key", <<key>>)
     ELSE IF titleKeyRaw # <<>> /\ ~KeyPatternTest(titleKeyRaw)
       THEN rejected("invalid-title-key", <<at>>)
     ELSE IF ~PageBreakAllowed(pageBreakRaw) THEN rejected("invalid-page-break", <<at>>)
     ELSE [levels |-> Append(acc.levels,
                             [key |-> key, label |-> label,
                              hasTitleKey |-> titleKeyRaw # <<>>, titleKey |-> titleKeyRaw,
                              injectHeading |-> TRUE, pageBreak |-> pageBreakRaw]),
           seenKeys |-> acc.seenKeys \cup {key},
           issues |-> acc.issues]

RECURSIVE StructureLoop(_, _, _)
StructureLoop(entries, index, acc) ==
  IF index > Len(entries) THEN acc
  ELSE StructureLoop(entries, index + 1, StructureStep(acc, entries[index], index))

\* Returns [levels, issues].
resolveCompileStructure(raw) ==
  IF raw.type = "null" THEN [levels |-> <<>>, issues |-> <<>>]
  ELSE IF raw.type # "object"
    THEN [levels |-> <<>>, issues |-> <<StructureIssue("compile-structure-not-object", <<>>)>>]
  ELSE IF ~raw.levelsIsArray
    THEN [levels |-> <<>>, issues |-> <<StructureIssue("levels-not-array", <<>>)>>]
  ELSE LET done == StructureLoop(raw.entries, 1,
                                 [levels |-> <<>>, seenKeys |-> {}, issues |-> <<>>])
       IN [levels |-> done.levels, issues |-> done.issues]

----------------------------------------------------------------------------
(* runStageCheck *)

\* runtimeConfig.stagePolicies[stage], and what the two external tools
\* report when they are run on the files.
StagePolicy(minimumChapterStatus, requireResolvedComments, enforceMarkdownlint) ==
  [minimumChapterStatus |-> minimumChapterStatus,
   requireResolvedComments |-> requireResolvedComments,
   enforceMarkdownlint |-> enforceMarkdownlint]

\* chapter.comments.filter((comment) => !comment.resolved)
UnresolvedComments(chapter) == SelectSeq(chapter.comments, LAMBDA comment : ~comment.resolved)

\* A slip: the comments of a chapter with an open thread are not reported.
UnresolvedIssuesNever(chapter, policy) == <<>>

\* if (policy.requireResolvedComments) ...
UnresolvedIssues(chapter, policy) ==
  IF policy.requireResolvedComments /\ Len(UnresolvedComments(chapter)) > 0
    THEN <<makeIssue("error", "comments", "unresolved-comments", chapter.relativePath,
                     <<Len(UnresolvedComments(chapter))>>)>>
    ELSE <<>>

\* A slip: only a rank two or more below the minimum counts.
BelowMinimumByTwo(chapterRank, minimumRank) == chapterRank + 1 < minimumRank

\* chapterRank < minimumRank
BelowMinimum(chapterRank, minimumRank) == chapterRank < minimumRank

\* The body of the loop over report.chapters: a chapter whose status is not
\* a stage name is passed over.
StageIssuesOf(chapter, stage, policy) ==
  IF ~isStageName(chapter.status) THEN <<>>
  ELSE (IF BelowMinimum(STATUS_RANK[chapter.status], STATUS_RANK[policy.minimumChapterStatus])
          THEN <<makeIssue("error", "stage", "below-required-stage", chapter.relativePath, NoFile)>>
          ELSE <<>>)
       \o (IF stage = "final" /\ chapter.status # "final"
             THEN <<makeIssue("error", "stage", "final-requires-final", chapter.relativePath,
                              NoFile)>>
             ELSE <<>>)
       \o UnresolvedIssues(chapter, policy)

RECURSIVE StageLoop(_, _, _)
StageLoop(chapters, stage, policy) ==
  IF chapters = <<>> THEN <<>>
  ELSE StageIssuesOf(Head(chapters), stage, policy) \o StageLoop(Tail(chapters), stage, policy)

\* runMarkdownlint(project, chapterPaths, required) when the tool reports
\* issues (lintFails) or not.
runMarkdownlint(required, lintFails) ==
  IF lintFails
    THEN <<makeIssue(IF required THEN "error" ELSE "warning", "lint", "markdownlint", NoFile,
                     NoFile)>>
    ELSE <<>>

\* Returns [chapters, issues]; inspected is what inspectProject returned.
runStageCheck(inspected, stage, policy, lintFails) ==
  [chapters |-> inspected.chapters,
   issues |-> inspected.issues
              \o StageLoop(inspected.chapters, stage, policy)
              \o runMarkdownlint(policy.enforceMarkdownlint, lintFails),
   compileStructureLevels |-> inspected.compileStructureLevels]

----------------------------------------------------------------------------
(* coerceMetadataValue *)

NumberValue(number) == [type |-> "number", number |-> number]

BooleanValue(flag) == [type |-> "boolean", flag |-> flag]

TrueText == <<"t", "r", "u", "e">>

FalseText == <<"f", "a", "l", "s", "e">>

Quotes == {"\"", "'"}

startsWith(value, c) == value # <<>> /\ value[1] = c

endsWith(value, c) == value # <<>> /\ value[Len(value)] = c

\* value.slice(1, -1)
SliceInner(value) == SubSeq(value, 2, Len(value) - 1)

\* entry.replace(/^['"]|['"]$/g, "")
StripQuotes(entry) ==
  LET front == IF entry # <<>> /\ Head(entry) \in Quotes THEN Tail(entry) ELSE entry
  IN IF front # <<>> /\ front[Len(front)] \in Quotes
       THEN SubSeq(front, 1, Len(front) - 1)
       ELSE front

\* inner.split(",")
RECURSIVE SplitOnComma(_, _)
SplitOnComma(text, current) ==
  IF text = <<>> THEN <<current>>
  ELSE IF Head(text) = "," THEN <<current>> \o SplitOnComma(Tail(text), <<>>)
  ELSE SplitOnComma(Tail(text), Append(current, Head(text)))

\* /^-?\d+$/.test(value)
IsIntegerText(value) ==
  LET digits == IF startsWith(value, "-") THEN Tail(value) ELSE value
  IN digits # <<>> /\ \A i \in DOMAIN digits : IsDigit(digits[i])

\* Number(value) for a value of that shape; -0 is kept as 0, which prints
\* the same.
NumberFromText(value) ==
  IF startsWith(value, "-") THEN 0 - NumberOf(Tail(value)) ELSE NumberOf(value)

\* A slip: a value of digits stays the string it is.
coerceMetadataValueKeepingText(value) ==
  IF value = <<>> THEN StringValue(<<>>) ELSE StringValue(value)

coerceMetadataValue(value) ==
  IF value = <<>> THEN StringValue(<<>>)
  ELSE IF \E q \in Quotes : startsWith(value, q) /\ endsWith(value, q)
    THEN StringValue(SliceInner(value))
  ELSE IF startsWith(value, "[") /\ endsWith(value, "]")
    THEN LET inner == trim(SliceInner(value))
             entries == SplitOnComma(inner, <<>>)
         IN IF inner = <<>> THEN ArrayValue(<<>>)
            ELSE ArrayValue([i \in DOMAIN entries |-> StripQuotes(trim(entries[i]))])
  ELSE IF IsIntegerText(value) THEN NumberValue(NumberFromText(value))
  ELSE IF value = TrueText THEN BooleanValue(TRUE)
  ELSE IF value = FalseText THEN BooleanValue(FALSE)
  ELSE StringValue(value)

\* String(number), for an integer
RECURSIVE NumberText(_)
NumberText(number) ==
  IF number < 0 THEN <<"-">> \o NumberText(0 - number)
  ELSE IF number < 10 THEN IndexText(number)
  ELSE NumberText(number \div 10) \o IndexText(number % 10)

RECURSIVE JoinWithComma(_)
JoinWithComma(entries) ==
  IF entries = <<>> THEN <<>>
  ELSE IF Len(entries) = 1 THEN entries[1]
  ELSE entries[1] \o <<",">> \o JoinWithComma(Tail(entries))

\* String(rawValue), as toScalarMetadataString and parseChapter turn a
\* header value back into text
String(rawValue) ==
  CASE rawValue.type = "string" -> rawValue.text
    [] rawValue.type = "number" -> NumberText(rawValue.number)
    [] rawValue.type = "boolean" -> IF rawValue.flag THEN TrueText ELSE FalseText
    [] rawValue.type = "array" -> JoinWithComma(rawValue.entries)

----------------------------------------------------------------------------
(* main: the validate, build and export commands *)

Commands == {"validate", "build", "export"}

BuildCommands == {"build", "export"}

PartLevel(injectHeading, pageBreak) ==
  CompileStructureLevel("part", "Part", "part_title", injectHeading, pageBreak)

ChapterLevel(injectHeading, pageBreak) ==
  CompileStructureLevel("chapter", "Chapter", "chapter_title", injectHeading, pageBreak)

PageBreakModes == {"none", "between-groups"}

\* No level, one level, or the two nested levels of the README's example,
\* with every setting of heading injection and page break.
LevelConfigs ==
  {<<>>}
  \cup {<<ChapterLevel(i, p)>> : i \in BOOLEAN, p \in PageBreakModes}
  \cup {<<PartLevel(i1, p1), ChapterLevel(i2, p2)>> :
          i1 \in BOOLEAN, p1 \in PageBreakModes, i2 \in BOOLEAN, p2 \in PageBreakModes}

NoThreads == [comments |-> <<>>, issues |-> <<>>]

\* No parser or resolver is under study.
NoInput == <<>>

NoResult == <<>>

\* A slip: only the first issue is looked at.
exitIfErrorsFirstOnly(issues) == issues # <<>> /\ issues[1].level = "error"

\* exitIfErrors: whether it ends the process.
exitIfErrors(issues) == \E i \in DOMAIN issues : issues[i].level = "error"

Init ==
  /\ command \in Commands
  /\ pc = "start"
  /\ dir \in Listings(FileUniverse, MaxFiles)
  /\ levels = <<PartLevel(TRUE, "between-groups"), ChapterLevel(TRUE, "between-groups")>>
  /\ report = EmptyReport(<<>>, <<>>)
  /\ output = NotWritten
  /\ exitCode = 0
  /\ blockLines = <<>>
  /\ threads = NoThreads
  /\ input = NoInput
  /\ result = NoResult

\* const report = inspectProject(project, config), for a project that
\* declares no spineCategories
Inspect ==
  /\ pc = "start"
  /\ report' = inspectProject(resolveSpineSchema(NoCategories), dir, levels)
  /\ pc' = "inspected"
  /\ UNCHANGED <<command, dir, levels, output, exitCode, blockLines, threads, input, result>>

\* printReport(report.issues); exitIfErrors(report.issues)
ExitIfErrors ==
  /\ pc = "inspected"
  /\ IF exitIfErrors(report.issues)
       THEN pc' = "exited" /\ exitCode' = 1
       ELSE pc' = "checked" /\ UNCHANGED exitCode
  /\ UNCHANGED <<command, dir, levels, report, output, blockLines, threads, input, result>>

\* case "validate": logLine("Validation passed ...")
ValidationPassed ==
  /\ pc = "checked"
  /\ command = "validate"
  /\ pc' = "done"
  /\ UNCHANGED <<command, dir, levels, report, output, exitCode, blockLines, threads, input, result>>

\* buildManuscript(project, report.chapters, report.compileStructureLevels)
Build ==
  /\ pc = "checked"
  /\ command \in BuildCommands
  /\ output' = buildManuscript(report.chapters, report.compileStructureLevels)
  /\ pc' = IF command = "build" THEN "done" ELSE "built"
  /\ UNCHANGED <<command, dir, levels, report, exitCode, blockLines, threads, input, result>>

\* runExport(project, format, inputPath, ...): reads the compiled file.
Export ==
  /\ pc = "built"
  /\ command = "export"
  /\ pc' = "done"
  /\ UNCHANGED <<command, dir, levels, report, output, exitCode, blockLines, threads, input, result>>

Next == Inspect \/ ExitIfErrors \/ ValidationPassed \/ Build \/ Export

Spec == Init /\ [][Next]_vars

----------------------------------------------------------------------------
(* buildManuscript over every grouping of up to MaxDocs documents *)

GroupValues == {Undefined, "1", "2"}

DigitChar(n) == CHOOSE c \in DOMAIN DigitValue : DigitValue[c] = n

\* The i-th document, "i00-a.md", with the given part and chapter fields.
GroupedFile(i, part, chapter) ==
  ManuscriptFile(<<DigitChar(i), "0", "0", "-", "a">>, FALSE, "draft", part, chapter)

RECURSIVE GroupedListings(_)
GroupedListings(n) ==
  IF n = 0 THEN {<<>>}
  ELSE LET shorter == GroupedListings(n - 1)
       IN shorter \cup
          {Append(s, GroupedFile(n, part, chapter)) :
             s \in {t \in shorter : Len(t) = n - 1}, part \in GroupValues, chapter \in GroupValues}

\* A file sets no field that is not the key of a configured level.
SetsOnlyLevelKeys(listing, lvls) ==
  \A i \in DOMAIN listing : \A k \in {"part", "chapter"} :
    listing[i].metadata[k] # Undefined => \E l \in DOMAIN lvls : lvls[l].key = k

\* Numbering starts at "1": the first file that sets a field sets it to "1"
\* (the code only compares group values and copies them into headings).
NumberedFromOne(listing) ==
  \A i \in DOMAIN listing : \A k \in {"part", "chapter"} :
    (listing[i].metadata[k] # Undefined /\ \A j \in 1..(i - 1) : listing[j].metadata[k] = Undefined)
      => listing[i].metadata[k] = "1"

\* The build command after inspectProject returned no error.
InitBuild ==
  /\ command = "build"
  /\ pc = "checked"
  /\ levels \in LevelConfigs
  /\ dir \in {l \in GroupedListings(MaxDocs) :
                l # <<>> /\ SetsOnlyLevelKeys(l, levels) /\ NumberedFromOne(l)}
  /\ report = inspectProject(resolveSpineSchema(NoCategories), dir, levels)
  /\ output = NotWritten
  /\ exitCode = 0
  /\ blockLines = <<>>
  /\ threads = NoThreads
  /\ input = NoInput
  /\ result = NoResult

NextBuild == Build

SpecBuild == InitBuild /\ [][NextBuild]_vars

----------------------------------------------------------------------------
(* Claims about main and inspectProject (Spec) *)

Inspected == pc # "start"

\* C1: for build and export, buildManuscript runs only after inspectProject
\* has returned and only if its issue list holds no issue of level "error";
\* a list that is empty or holds only warnings never stops the build, and a
\* finished build or export has written the output.
C1_BuildOnlyWithoutErrors ==
  /\ output.written =>
       /\ command \in BuildCommands
       /\ pc \in {"built", "done"}
       /\ \A i \in DOMAIN report.issues : report.issues[i].level # "error"
  /\ (command \in BuildCommands /\ pc = "exited") =>
       /\ \E i \in DOMAIN report.issues : report.issues[i].level = "error"
       /\ ~output.written
  /\ (command \in BuildCommands /\ pc \in {"built", "done"}) => output.written
  /\ pc \in {"start", "inspected", "checked"} => ~output.written

\* A build that went through with warnings in the report.
C1_Witness ==
  /\ command = "build"
  /\ pc = "done"
  /\ output.written
  /\ report.issues # <<>>
  /\ \A i \in DOMAIN report.issues : report.issues[i].level = "warning"

DuplicateIssues == SelectSeq(report.issues, LAMBDA issue : issue.kind = "duplicate-order")

\* The chapters that share the order key of chapter c.
SameOrder(c) == {d \in Range(report.chapters) : d.order = c.order}

\* The chapter of SameOrder(c) whose path is the least.
FirstOfOrder(c) ==
  CHOOSE d \in SameOrder(c) :
    \A e \in SameOrder(c) : CompareBy(d.relativePath, e.relativePath, CodeUnit) <= 0

IssuesOfFile(issues, relativePath) == {i \in DOMAIN issues : issues[i].file = relativePath}

\* C6: a duplicate-order error is reported exactly for the documents that
\* share a numeric order key with an earlier document: one error per such
\* document (k - 1 for a key shared by k documents), an error, naming that
\* document and the first document with the key; no other document has one.
C6_DuplicateOrderErrors ==
  Inspected =>
    /\ \A c \in Range(report.chapters) :
         LET mine == IssuesOfFile(DuplicateIssues, c.relativePath)
         IN IF c.order = NullOrder \/ c = FirstOfOrder(c)
              THEN mine = {}
              ELSE /\ Cardinality(mine) = 1
                   /\ \A i \in mine :
                        /\ DuplicateIssues[i].level = "error"
                        /\ DuplicateIssues[i].ref = FirstOfOrder(c).relativePath
    /\ \A c \in Range(report.chapters) :
         c.order # NullOrder =>
           Cardinality({i \in DOMAIN DuplicateIssues :
                          \E d \in SameOrder(c) : DuplicateIssues[i].file = d.relativePath})
             = Cardinality(SameOrder(c)) - 1
    /\ \A i \in DOMAIN DuplicateIssues :
         \E c \in Range(report.chapters) : c.relativePath = DuplicateIssues[i].file

\* Three documents share one order key, listed in another order than their paths'.
C6_Witness ==
  /\ Inspected
  /\ Len(report.chapters) = 3
  /\ \A c \in Range(report.chapters) : c.order = 100
  /\ Len(DuplicateIssues) = 2
  /\ dir # SortPaths(dir)

RECURSIVE Enumerations(_)
Enumerations(S) ==
  IF S = {} THEN {<<>>}
  ELSE UNION {{<<x>> \o p : p \in Enumerations(S \ {x})} : x \in S}

\* C7: the returned documents are in ascending order of order key, the
\* documents without an order key come after all the others, ordered among
\* themselves by path, and the list is the same whatever order the directory
\* listing enumerated the files in.
C7_SortedChapters ==
  Inspected =>
    /\ Len(report.chapters) = Len(dir)
    /\ {report.chapters[i].relativePath : i \in DOMAIN report.chapters}
         = {RelativePath(dir[i]) : i \in DOMAIN dir}
    /\ \A i, j \in DOMAIN report.chapters :
         i < j =>
           LET a == report.chapters[i]
               b == report.chapters[j]
           IN /\ (a.order # NullOrder /\ b.order # NullOrder) => a.order <= b.order
              /\ a.order = NullOrder => b.order = NullOrder
              /\ (a.order = NullOrder /\ b.order = NullOrder) =>
                   localeCompare(a.relativePath, b.relativePath) < 0
    /\ \A p \in Enumerations(Range(dir)) :
         inspectProject(resolveSpineSchema(NoCategories), p, levels).chapters = report.chapters

\* Three files enumerated out of path order: two share an order key and one
\* has none.
C7_Witness ==
  /\ Inspected
  /\ Len(report.chapters) = 3
  /\ dir # SortPaths(dir)
  /\ report.chapters[1].order = report.chapters[2].order
  /\ report.chapters[1].order # NullOrder
  /\ report.chapters[3].order = NullOrder

----------------------------------------------------------------------------
(* Claims about buildManuscript (SpecBuild) *)

Chapters == report.chapters

Lvls == report.compileStructureLevels

\* The document's own value for the level: entry.groupValues[level.key].
OwnValue(i, l) == Chapters[i].groupValues[Lvls[l].key]

\* currentValue and changed, as the loop had them for document i and level l.
EffectiveValue(i, l) == output.trace[i].currentValues[l]

ChangedAt(i, l) == output.trace[i].levelChanged[l]

PrecedingValue(i, l) == IF i = 1 THEN Undefined ELSE EffectiveValue(i - 1, l)

AnyLevelChanged(i) == \E l \in DOMAIN Lvls : ChangedAt(i, l)

\* C2: a document's effective value for a level is its own header value if
\* it has one, otherwise the effective value of the document before it; a
\* document that sets no value of its own, at which no enclosing level
\* changed, is not a change of the level (the second of three documents of
\* which the first and third set the field), and a first document that sets
\* the field is one.
C2_InheritedGroupValue ==
  output.written =>
    \A i \in DOMAIN Chapters : \A l \in DOMAIN Lvls :
      /\ EffectiveValue(i, l) =
           IF OwnValue(i, l) # Undefined THEN OwnValue(i, l) ELSE PrecedingValue(i, l)
      /\ (OwnValue(i, l) = Undefined /\ \A k \in 1..(l - 1) : ~ChangedAt(i, k))
           => ~ChangedAt(i, l)
      /\ (i = 1 /\ OwnValue(i, l) # Undefined) => ChangedAt(i, l)

\* Three documents, the first and third set "chapter" (to different values).
C2_Witness ==
  /\ output.written
  /\ Len(Chapters) = 3
  /\ Len(Lvls) = 1
  /\ Lvls[1].key = "chapter"
  /\ OwnValue(1, 1) = "1" /\ OwnValue(2, 1) = Undefined /\ OwnValue(3, 1) = "2"
  /\ EffectiveValue(2, 1) = "1"
  /\ ChangedAt(1, 1) /\ ~ChangedAt(2, 1) /\ ChangedAt(3, 1)

\* C3: a level is changed at a document if and only if its effective value
\* differs from the preceding document's or an enclosing level is changed at
\* that document.
C3_ChangedIffValueOrParent ==
  output.written =>
    \A i \in DOMAIN Chapters : \A l \in DOMAIN Lvls :
      ChangedAt(i, l) <=>
        \/ EffectiveValue(i, l) # PrecedingValue(i, l)
        \/ \E k \in 1..(l - 1) : ChangedAt(i, k)

\* The part changes while the chapter value repeats: the chapter restarts.
C3_Witness ==
  /\ output.written
  /\ Len(Lvls) = 2
  /\ \E i \in DOMAIN Chapters :
       /\ i > 1
       /\ ChangedAt(i, 1)
       /\ EffectiveValue(i, 2) # Undefined
       /\ EffectiveValue(i, 2) = PrecedingValue(i, 2)
       /\ ChangedAt(i, 2)

NewpageLines == {n \in DOMAIN output.lines : output.lines[n].kind = "newpage"}

\* The line of document i's own heading.
EntryLine(i) ==
  CHOOSE n \in DOMAIN output.lines :
    output.lines[n].kind = "entry-heading" /\ output.lines[n].text = Chapters[i].relativePath

\* The lines emitted for document i before its own heading.
GroupLinesOf(i) == ((IF i = 1 THEN 0 ELSE EntryLine(i - 1)) + 1)..(EntryLine(i) - 1)

PageBreaksEverywhere ==
  Len(Lvls) > 0 /\ \A l \in DOMAIN Lvls : Lvls[l].pageBreak = "between-groups"

AtMostOneBreakPerDocument ==
  \A i \in DOMAIN Chapters : Cardinality(NewpageLines \cap GroupLinesOf(i)) <= 1

\* C4 as stated: with page breaks enabled at every level, as many markers as
\* documents with any level change, and at most one per document.
C4_BreakPerChangedDocument ==
  output.written =>
    /\ PageBreaksEverywhere =>
         Cardinality(NewpageLines) = Cardinality({i \in DOMAIN Chapters : AnyLevelChanged(i)})
    /\ AtMostOneBreakPerDocument

\* C4 amended: with page breaks enabled at every level, as many markers as
\* documents other than the first with any level change, each before the
\* lines of such a document, and at most one per document.
C4_BreakPerChangedDocumentAfterFirst ==
  output.written =>
    /\ PageBreaksEverywhere =>
         /\ Cardinality(NewpageLines)
              = Cardinality({i \in DOMAIN Chapters : i > 1 /\ AnyLevelChanged(i)})
         /\ \A i \in DOMAIN Chapters :
              (i > 1 /\ AnyLevelChanged(i)) => NewpageLines \cap GroupLinesOf(i) # {}
    /\ AtMostOneBreakPerDocument

\* Both levels change at a later document and one marker is emitted for it;
\* three documents, each a change: two markers.
C4_Witness ==
  /\ output.written
  /\ PageBreaksEverywhere
  /\ Len(Lvls) = 2
  /\ Len(Chapters) = 3
  /\ \A i \in DOMAIN Chapters : AnyLevelChanged(i)
  /\ \E i \in DOMAIN Chapters :
       /\ i > 1
       /\ OwnValue(i, 1) # Undefined /\ OwnValue(i, 2) # Undefined
       /\ EffectiveValue(i, 1) # PrecedingValue(i, 1)
       /\ EffectiveValue(i, 2) # PrecedingValue(i, 2)
       /\ Cardinality(NewpageLines \cap GroupLinesOf(i)) = 1
  /\ Cardinality(NewpageLines) = 2

HeadingLines == SelectSeq(output.lines, LAMBDA line : line.kind = "heading")

TocLines == SelectSeq(output.lines, LAMBDA line : line.kind = "toc")

TocMarkerLine == CHOOSE n \in DOMAIN output.lines : output.lines[n].kind = "toc-marker"

\* C5: a group heading of a level is emitted exactly at the documents where
\* the level is changed, has an effective value and injects headings; the
\* table of contents holds one entry per emitted group heading, in emission
\* order, at the level's depth, right after the marker line.
C5_HeadingsAndToc ==
  output.written =>
    /\ \A i \in DOMAIN Chapters : \A l \in DOMAIN Lvls :
         LET mine == {n \in GroupLinesOf(i) :
                        output.lines[n].kind = "heading" /\ output.lines[n].level = l - 1}
         IN IF ChangedAt(i, l) /\ EffectiveValue(i, l) # Undefined /\ Lvls[l].injectHeading
              THEN Cardinality(mine) = 1
              ELSE mine = {}
    /\ Len(TocLines) = Len(HeadingLines)
    /\ \A n \in DOMAIN TocLines :
         /\ TocLines[n].text = HeadingLines[n].text
         /\ TocLines[n].level = HeadingLines[n].level
    /\ \A n \in DOMAIN output.lines :
         output.lines[n].kind = "toc" <=>
           (TocMarkerLine + 1 < n /\ n <= TocMarkerLine + 1 + Len(HeadingLines))

----------------------------------------------------------------------------
(* The comments appendix of one manuscript file: the lines between the
   markers, parsed by parseStegoCommentThreads *)

RowKinds ==
  {"blank", "heading", "meta", "quote-header", "quote-empty", "quote-text", "text"}

StatusShouted == <<" ", "R", "E", "S", "O", "L", "V", "E", "D", " ">>

StatusClosed == <<"c", "l", "o", "s", "e", "d">>

MetaPayload(json, keys, status) ==
  [json |-> json, keys |-> keys, status |-> status, hasStatus |-> "status" \in keys]

\* What the payload of a metadata row can decode to.
MetaPayloads ==
  {MetaPayload("garbage", {}, <<>>),
   MetaPayload("array", {}, <<>>),
   MetaPayload("object", {"anchor"}, <<>>),
   MetaPayload("object", {"status", "created_at"}, StatusOpen)}
  \cup {MetaPayload("object", {"status", "anchor"}, status) :
          status \in {StatusOpen, StatusResolved, StatusShouted, StatusClosed}}

CommentIds ==
  <<"CMT-0001", "CMT-0002", "CMT-0003", "CMT-0004", "CMT-0005", "CMT-0006", "CMT-0007">>

\* The lines of the given kinds; the k-th heading has the k-th id, every
\* metadata row the same payload, every other line its own text.
AppendixLines(kinds, payload) ==
  [i \in DOMAIN kinds |->
     AppendixLine(kinds[i],
                  IF kinds[i] = "heading"
                    THEN CommentIds[Cardinality({j \in 1..i : kinds[j] = "heading"})]
                    ELSE EmptyString,
                  IF kinds[i] \in {"quote-header", "quote-text", "text"} THEN i ELSE 0,
                  IF kinds[i] = "meta" THEN payload ELSE NoPayload)]

CommentedFile == ManuscriptFile(<<"1","0","0","-","a">>, FALSE, "draft", Undefined, Undefined)

InitComments ==
  /\ command = "validate"
  /\ pc = "comments"
  /\ dir = <<>>
  /\ levels = <<>>
  /\ report = EmptyReport(<<>>, <<>>)
  /\ output = NotWritten
  /\ exitCode = 0
  /\ \E before \in {<<>>, <<"text">>}, rows \in SeqsUpTo(RowKinds, MaxRows) :
       \E payload \in (IF "meta" \in Range(rows) THEN MetaPayloads ELSE {NoPayload}) :
         blockLines = AppendixLines(before \o <<"heading">> \o rows, payload)
  /\ threads = NoThreads
  /\ input = NoInput
  /\ result = NoResult

\* parseStegoCommentsAppendix hands the lines between the markers to
\* parseStegoCommentThreads; the start marker is the first line of a body
\* that starts on line 1 of the file.
ParseComments ==
  /\ pc = "comments"
  /\ LET bodyStartLine == 1
         startIndex == 0
     IN threads' = parseStegoCommentThreads(blockLines, RelativePath(CommentedFile),
                                            bodyStartLine + startIndex + 1)
  /\ pc' = "parsed"
  /\ UNCHANGED <<command, dir, levels, report, output, exitCode, blockLines, input, result>>

NextComments == ParseComments

SpecComments == InitComments /\ [][NextComments]_vars

----------------------------------------------------------------------------
(* Claims about the comments appendix, checked under SpecComments *)

Parsed == pc = "parsed"

HeadingIndexes == {i \in DOMAIN blockLines : IsHeading(blockLines[i])}

HeadingAt(k) ==
  CHOOSE i \in HeadingIndexes : Cardinality({j \in HeadingIndexes : j <= i}) = k

\* The lines under the k-th heading.
RowIndexes(k) ==
  (HeadingAt(k) + 1)..(IF k < Cardinality(HeadingIndexes) THEN HeadingAt(k + 1) - 1
                       ELSE Len(blockLines))

HeaderRows(k) == {i \in RowIndexes(k) : IsThreadHeader(blockLines[i])}

MetaRows(k) == {i \in RowIndexes(k) : IsMeta(blockLines[i])}

Least(S) == CHOOSE i \in S : \A j \in S : i <= j

ErrorsFor(id, kind) ==
  {i \in DOMAIN threads.issues :
     /\ threads.issues[i].level = "error"
     /\ threads.issues[i].kind = kind
     /\ threads.issues[i].ref = <<id>>}

AnyErrorFor(id) ==
  \E i \in DOMAIN threads.issues :
    threads.issues[i].level = "error" /\ threads.issues[i].ref = <<id>>

Emitted(k) == threads.comments[k]

ThreadCount == Cardinality(HeadingIndexes)

\* The line that holds the text of the first message: the line after the
\* header h, or the one after an empty quote that follows the header.
FirstTextRow(k, h) ==
  IF h + 1 \in RowIndexes(k) /\ IsEmptyQuote(blockLines[h + 1]) THEN h + 2 ELSE h + 1

\* The first header after the metadata row has message text, and another
\* header comes later.
SecondHeaderAfterFirstMessage(k) ==
  /\ MetaRows(k) # {}
  /\ LET after == {h \in HeaderRows(k) : h > Least(MetaRows(k))}
     IN /\ after # {}
        /\ LET t == FirstTextRow(k, Least(after))
           IN /\ t \in RowIndexes(k)
              /\ blockLines[t].kind = "quote-text"
              /\ \E h \in after : h > t

\* C8 (as amended): a thread in which the first header line after the
\* metadata row is directly followed by message text (or by one empty quote
\* line and then message text) and a second header line comes later produces
\* exactly one "Multiple message blocks" error and is emitted with only its
\* first message recorded.
C8_SecondHeaderAfterFirstMessage ==
  Parsed =>
    \A k \in 1..ThreadCount :
      SecondHeaderAfterFirstMessage(k) =>
        LET h == Least({i \in HeaderRows(k) : i > Least(MetaRows(k))})
        IN /\ k <= Len(threads.comments)
           /\ Cardinality(ErrorsFor(Emitted(k).id, "multiple-message-blocks")) = 1
           /\ Len(Emitted(k).thread) = 1
           /\ Emitted(k).thread[1].header = blockLines[h].text
           /\ Head(Emitted(k).thread[1].message) = blockLines[FirstTextRow(k, h)].text

C8_Witness ==
  /\ Parsed
  /\ \E k \in 1..ThreadCount :
       /\ SecondHeaderAfterFirstMessage(k)
       /\ Len(Emitted(k).thread) = 1
       /\ ErrorsFor(Emitted(k).id, "multiple-message-blocks") # {}

\* C8 (as stated): every thread with two header lines under its heading
\* (after its metadata row, with message text after the first header)
\* produces exactly one "Multiple message blocks" error and is emitted with
\* only the message of its first header.
C8_TwoHeadersOneError ==
  Parsed =>
    \A k \in 1..ThreadCount :
      (/\ Cardinality(HeaderRows(k)) = 2
       /\ MetaRows(k) # {}
       /\ Least(MetaRows(k)) < Least(HeaderRows(k))
       /\ \E t \in RowIndexes(k) :
            blockLines[t].kind = "quote-text" /\ t > Least(HeaderRows(k))) =>
        /\ k <= Len(threads.comments)
        /\ Cardinality(ErrorsFor(Emitted(k).id, "multiple-message-blocks")) = 1
        /\ Len(Emitted(k).thread) = 1
        /\ Emitted(k).thread[1].header = blockLines[Least(HeaderRows(k))].text

\* The payload of the metadata row the parser decodes: the first one.
DecodedPayload(k) == blockLines[Least(MetaRows(k))].payload

\* The decoder reaches the status: the payload is an object with known keys.
StatusChecked(k) ==
  /\ MetaRows(k) # {}
  /\ DecodedPayload(k).json = "object"
  /\ DecodedPayload(k).keys \subseteq AllowedMetaKeys

StatusIs(k, status) ==
  DecodedPayload(k).hasStatus /\ DecodedPayload(k).status = status

StatusReads(k, status) ==
  DecodedPayload(k).hasStatus /\ toLowerCase(trim(DecodedPayload(k).status)) = status

\* C9 (as amended): the status, with surrounding white space removed and in
\* lower case, must be "open" or "resolved"; any other status is reported as
\* an error and the thread is emitted with resolved = false; a thread is
\* emitted as resolved only when its status so read is "resolved".
C9_NormalizedStatus ==
  Parsed =>
    \A k \in 1..Len(threads.comments) :
      /\ Emitted(k).resolved => StatusChecked(k) /\ StatusReads(k, StatusResolved)
      /\ (StatusChecked(k) /\ ~StatusReads(k, StatusOpen) /\ ~StatusReads(k, StatusResolved))
           => /\ ErrorsFor(Emitted(k).id, "invalid-meta64-status") # {}
              /\ ~Emitted(k).resolved

C9_Witness ==
  /\ Parsed
  /\ \E k \in 1..Len(threads.comments) :
       /\ StatusChecked(k)
       /\ StatusIs(k, StatusShouted)
       /\ Emitted(k).resolved
       /\ ~AnyErrorFor(Emitted(k).id)

\* C9 (as stated): the status must be exactly "open" or "resolved"; any other
\* status is reported as an error and the thread is emitted with
\* resolved = false; a thread is emitted as resolved only when its status is
\* exactly "resolved".
C9_ExactStatus ==
  Parsed =>
    \A k \in 1..Len(threads.comments) :
      /\ Emitted(k).resolved => StatusChecked(k) /\ StatusIs(k, StatusResolved)
      /\ (StatusChecked(k) /\ ~StatusIs(k, StatusOpen) /\ ~StatusIs(k, StatusResolved))
           => /\ ErrorsFor(Emitted(k).id, "invalid-meta64-status") # {}
              /\ ~Emitted(k).resolved

\* No metadata row under the k-th heading passes validation.
LacksValidMeta(k) ==
  \A i \in MetaRows(k) :
    LET payload == blockLines[i].payload
    IN ~(/\ payload.json = "object"
         /\ payload.keys \subseteq AllowedMetaKeys
         /\ payload.hasStatus
         /\ toLowerCase(trim(payload.status)) \in {StatusOpen, StatusResolved})

\* No line under the k-th heading holds message text.
LacksMessage(k) == \A i \in RowIndexes(k) : blockLines[i].kind # "quote-text"

\* C10: every heading line gives exactly one thread with its id, in the order
\* of the headings; a thread without a valid metadata row or without message
\* text is reported with an error and still emitted, and without a valid
\* metadata row it is emitted with resolved = false.
C10_ThreadPerHeading ==
  Parsed =>
    /\ Len(threads.comments) = ThreadCount
    /\ \A k \in 1..ThreadCount :
         /\ Emitted(k).id = blockLines[HeadingAt(k)].id
         /\ LacksValidMeta(k) => AnyErrorFor(Emitted(k).id) /\ ~Emitted(k).resolved
         /\ LacksMessage(k) => Emitted(k).thread = <<>> /\ AnyErrorFor(Emitted(k).id)

C10_Witness ==
  /\ Parsed
  /\ ThreadCount = 2
  /\ Len(threads.comments) = 2
  /\ LacksValidMeta(1) /\ LacksMessage(1)
  /\ Emitted(1).thread = <<>> /\ ~Emitted(1).resolved
  /\ ~LacksValidMeta(2) /\ ~LacksMessage(2)

----------------------------------------------------------------------------
(* The body of one manuscript file, handed to parseStegoCommentsAppendix,
   and the appendix put back after the body it returned *)

BodyLineKinds == {"blank", "space", "text", "start", "end", "heading"}

LineEndings == {"LF", "CRLF"}

\* The body with the given lines and line endings; the k-th heading has the
\* k-th id and every text line its own text.
BodyOf(kinds, eols) ==
  [i \in DOMAIN kinds |->
     BodyLine(kinds[i],
              IF kinds[i] = "heading"
                THEN CommentIds[Cardinality({j \in 1..i : kinds[j] = "heading"})]
                ELSE EmptyString,
              IF kinds[i] = "text" THEN i ELSE 0,
              IF i = Len(kinds) THEN "None" ELSE eols[i])]

InitAppendix ==
  /\ command = "validate"
  /\ pc = "appendix"
  /\ dir = <<>>
  /\ levels = <<>>
  /\ report = EmptyReport(<<>>, <<>>)
  /\ output = NotWritten
  /\ exitCode = 0
  /\ blockLines = <<>>
  /\ threads = NoThreads
  /\ \E m \in 1..MaxLines :
       \E kinds \in [1..m -> BodyLineKinds], eols \in [1..(m - 1) -> LineEndings] :
         input = BodyOf(kinds, eols)
  /\ result = NoResult

\* parseChapter: parseStegoCommentsAppendix(body, relativePath, bodyStartLine),
\* for a file without a metadata block (the body starts on line 1).
StripAppendix ==
  /\ pc = "appendix"
  /\ result' = parseStegoCommentsAppendix(input, RelativePath(CommentedFile), 1)
  /\ pc' = "stripped"
  /\ UNCHANGED <<command, dir, levels, report, output, exitCode, blockLines, threads, input>>

\* The body had one start marker and, after it, one end marker.
WellDelimited(body) ==
  /\ Len(findTrimmedLineIndexes(body, "start")) = 1
  /\ Len(findTrimmedLineIndexes(body, "end")) = 1
  /\ findTrimmedLineIndexes(body, "start")[1] < findTrimmedLineIndexes(body, "end")[1]

\* The appendix of a well delimited body: the marker lines and the lines
\* between them, with the line endings they had.
AppendixOf(body) ==
  LET start == findTrimmedLineIndexes(body, "start")[1]
      end == findTrimmedLineIndexes(body, "end")[1]
  IN [i \in 1..(end - start + 1) |->
        [body[start + i - 1] EXCEPT !.eol = IF i = end - start + 1 THEN "None" ELSE @]]

\* The file is written again with the same appendix after the body that
\* was returned: the body, a line ending of the kind the file used, a blank
\* line or none, the appendix.
ReinsertAppendix ==
  /\ pc = "stripped"
  /\ WellDelimited(input)
  /\ \E blankLine \in BOOLEAN :
       \E joint \in {input[i].eol : i \in 1..(Len(input) - 1)} \cup {LineEndingOf(input)} :
         LET prose == result.bodyWithoutComments
         IN input' = [i \in DOMAIN prose |-> [prose[i] EXCEPT !.eol = IF @ = "None" THEN joint ELSE @]]
                     \o (IF blankLine THEN <<BodyLine("blank", EmptyString, 0, joint)>> ELSE <<>>)
                     \o AppendixOf(input)
  /\ pc' = "reinserted"
  /\ UNCHANGED <<command, dir, levels, report, output, exitCode, blockLines, threads, result>>

NextAppendix == StripAppendix \/ ReinsertAppendix

SpecAppendix == InitAppendix /\ [][NextAppendix]_vars

----------------------------------------------------------------------------
(* Claims about parseStegoCommentsAppendix, checked under SpecAppendix *)

Stripped == pc = "stripped"

Markers(kind) == {i \in DOMAIN input : input[i].kind = kind}

TheMarker(kind) == CHOOSE i \in Markers(kind) : TRUE

CommentsErrorReported ==
  \E i \in DOMAIN result.issues :
    result.issues[i].level = "error" /\ result.issues[i].category = "comments"

BodyReturnedUnchanged == result.bodyWithoutComments = input /\ result.comments = <<>>

\* A marker is missing or repeated, or the one end marker is not after the
\* one start marker.
MarkersMisused ==
  /\ Markers("start") \cup Markers("end") # {}
  /\ \/ Cardinality(Markers("start")) # 1
     \/ Cardinality(Markers("end")) # 1
     \/ TheMarker("end") <= TheMarker("start")

\* C11: without any marker the body is returned unchanged with no issue;
\* with a marker missing or repeated, or with the end marker at or before
\* the start marker, a comments error is reported, the body is returned
\* unchanged and no thread is emitted.
C11_MarkerErrorsKeepBody ==
  Stripped =>
    /\ (Markers("start") \cup Markers("end") = {})
         => BodyReturnedUnchanged /\ result.issues = <<>>
    /\ MarkersMisused => CommentsErrorReported /\ BodyReturnedUnchanged

C11_Witness ==
  /\ Stripped
  /\ Cardinality(Markers("start")) = 1
  /\ Cardinality(Markers("end")) = 1
  /\ TheMarker("end") < TheMarker("start")
  /\ \E i \in DOMAIN input : input[i].kind = "heading" /\ TheMarker("end") < i
  /\ CommentsErrorReported
  /\ BodyReturnedUnchanged

StrippedBody(body) ==
  parseStegoCommentsAppendix(body, RelativePath(CommentedFile), 1).bodyWithoutComments

\* C12: the body returned is returned again when it is parsed again, and
\* the body returned for the returned body with the same appendix put back
\* after it is the returned body, byte for byte.
C12_StripIsIdempotent ==
  /\ Stripped => StrippedBody(result.bodyWithoutComments) = result.bodyWithoutComments
  /\ pc = "reinserted" => StrippedBody(input) = result.bodyWithoutComments

C12_Witness ==
  /\ pc = "reinserted"
  /\ \E i \in DOMAIN input : input[i].kind = "heading"
  /\ \E i \in DOMAIN input : input[i].kind = "blank" /\ input[i + 1].kind = "start"
  /\ Len(result.bodyWithoutComments) >= 2
  /\ result.bodyWithoutComments[1].eol = "CRLF"
  /\ StrippedBody(input) = result.bodyWithoutComments
  /\ StrippedBody(input) # input

----------------------------------------------------------------------------
(* The text of one manuscript file, handed to parseMetadata *)

RawLineKinds == {"delimiter", "delimiter-more", "pair", "text", "blank", "start", "end"}

HeaderKeys == <<"title", "status", "part", "chapter", "pov", "place">>

\* The text with lines of the given kinds and one kind of line ending; the
\* pair on line i has the i-th key and its own value.
RawOf(kinds, eol) ==
  [i \in DOMAIN kinds |->
     BodyLine(kinds[i],
              IF kinds[i] = "pair" THEN HeaderKeys[i] ELSE EmptyString,
              IF kinds[i] \in {"pair", "text", "delimiter-more"} THEN i ELSE 0,
              IF i = Len(kinds) THEN "None" ELSE eol)]

InitMetadata ==
  /\ command = "validate"
  /\ pc = "metadata"
  /\ dir = <<>>
  /\ levels = <<>>
  /\ report = EmptyReport(<<>>, <<>>)
  /\ output = NotWritten
  /\ exitCode = 0
  /\ blockLines = <<>>
  /\ threads = NoThreads
  /\ \E m \in 1..MaxLines :
       \E kinds \in [1..m -> RawLineKinds], eol \in LineEndings, required \in BOOLEAN :
         input = [raw |-> RawOf(kinds, eol), required |-> required]
  /\ result = NoResult

\* parseMetadata(raw, chapterPath, required)
ParseMetadata ==
  /\ pc = "metadata"
  /\ result' = parseMetadataText(input.raw, RelativePath(CommentedFile), input.required)
  /\ pc' = "parsed-metadata"
  /\ UNCHANGED <<command, dir, levels, report, output, exitCode, blockLines, threads, input>>

NextMetadata == ParseMetadata

SpecMetadata == InitMetadata /\ [][NextMetadata]_vars

----------------------------------------------------------------------------
(* Claims about parseMetadata, checked under SpecMetadata *)

MetadataParsed == pc = "parsed-metadata"

\* The text does not open with the delimiter line.
NoHeaderDelimiter == input.raw[1].kind # "delimiter"

RawMarkers == {i \in DOMAIN input.raw : input.raw[i].kind \in {"start", "end"}}

ErrorIssues(issues) == {i \in DOMAIN issues : issues[i].level = "error"}

MetadataIssues(issues) == {i \in DOMAIN issues : issues[i].category = "metadata"}

TextsOf(lines) == SelectSeq([i \in DOMAIN lines |-> lines[i].text], LAMBDA t : t # 0)

\* The texts of the lines outside the appendix of a well delimited text.
TextsOutsideAppendix(raw) ==
  LET start == findTrimmedLineIndexes(raw, "start")[1]
      end == findTrimmedLineIndexes(raw, "end")[1]
  IN TextsOf(SubSeq(raw, 1, start - 1)) \o TextsOf(SubSeq(raw, end + 1, Len(raw)))

\* C13 (as amended): for a text that does not open with the delimiter line
\* and a header that is not mandatory, the header map is empty and there is
\* no metadata issue; a text without appendix markers is returned unchanged
\* with no issue at all, and a text with a well delimited appendix is
\* returned without the appendix.
C13_NoHeaderNoMetadataError ==
  (MetadataParsed /\ NoHeaderDelimiter /\ ~input.required) =>
    /\ DOMAIN result.metadata = {}
    /\ MetadataIssues(result.issues) = {}
    /\ RawMarkers = {} => result.body = input.raw /\ result.issues = <<>>
    /\ WellDelimited(input.raw) =>
         /\ \A i \in DOMAIN result.body : result.body[i].kind \notin {"start", "end"}
         /\ TextsOf(result.body) = TextsOutsideAppendix(input.raw)

C13_Witness ==
  /\ MetadataParsed /\ NoHeaderDelimiter /\ ~input.required
  /\ WellDelimited(input.raw)
  /\ input.raw[1].kind = "text"
  /\ result.body # input.raw
  /\ Len(TextsOf(result.body)) = 1
  /\ DOMAIN result.metadata = {}

\* C13 (as stated): for a text that does not open with the delimiter line
\* and a header that is not mandatory, the header map is empty, the body is
\* the original text and no error is reported.
C13_NoHeaderOriginalText ==
  (MetadataParsed /\ NoHeaderDelimiter /\ ~input.required) =>
    /\ DOMAIN result.metadata = {}
    /\ result.body = input.raw
    /\ ErrorIssues(result.issues) = {}

\* The text opens with the delimiter line.
HeaderOpened == input.raw[1].kind = "delimiter" /\ Len(input.raw) >= 2

\* The later lines that contain only the delimiter.
ClosingDelimiters == {k \in 2..Len(input.raw) : input.raw[k].kind = "delimiter"}

MissingClosingReported ==
  \E i \in DOMAIN result.issues : result.issues[i].kind = "missing-closing-delimiter"

\* C14: when the text opens with the delimiter line, the header block is the
\* lines strictly between it and the next line that contains only the
\* delimiter, whatever their number, and the missing closing delimiter is
\* reported, with an empty header map, exactly when no later line contains
\* only the delimiter.
C14_HeaderBlockBetweenDelimiters ==
  (MetadataParsed /\ HeaderOpened) =>
    /\ (ClosingDelimiters = {}) <=> MissingClosingReported
    /\ MissingClosingReported => DOMAIN result.metadata = {}
    /\ ClosingDelimiters # {} =>
         LET closing == CHOOSE k \in ClosingDelimiters : \A j \in ClosingDelimiters : k <= j
         IN DOMAIN result.metadata
              = {KeyOf(input.raw[i]) : i \in {j \in 2..(closing - 1) : HasSeparator(input.raw[j])}}

----------------------------------------------------------------------------
(* The header of one manuscript file, handed to extractReferenceIds *)

CharCategory == SpineCategory("characters", <<"C", "H", "A", "R">>, "characters.md")

LocCategory == SpineCategory("locations", <<"L", "O", "C">>, "locations.md")

CategoryLists == {<<>>, <<CharCategory>>, <<CharCategory, LocCategory>>}

ReferenceEntries ==
  {<<"C", "H", "A", "R", "-", "X">>,
   <<" ", "C", "H", "A", "R", "-", "X", " ">>,
   <<"c", "h", "a", "r", "-", "x">>,
   <<"C", "H", "A", "R", "-">>,
   <<"L", "O", "C", "-", "A", "1">>}

ReferenceValues(n) ==
  {NullValue, StringValue(<<>>), StringValue(<<"C", "H", "A", "R", "-", "X">>)}
  \cup {ArrayValue(entries) : entries \in SeqsUpTo(ReferenceEntries, n)}

InitReferences ==
  /\ command = "validate"
  /\ pc = "references"
  /\ dir = <<>>
  /\ levels = <<>>
  /\ report = EmptyReport(<<>>, <<>>)
  /\ output = NotWritten
  /\ exitCode = 0
  /\ blockLines = <<>>
  /\ threads = NoThreads
  /\ \E characters \in ReferenceValues(MaxEntries), locations \in ReferenceValues(MaxEntries),
        spineCategories \in CategoryLists :
       input = [metadata |-> [characters |-> characters, locations |-> locations],
                spineCategories |-> spineCategories]
  /\ result = NoResult

\* parseChapter: extractReferenceIds(metadata, relativePath, spineCategories)
ExtractReferenceIds ==
  /\ pc = "references"
  /\ result' = extractReferenceIds(input.metadata, RelativePath(CommentedFile),
                                   input.spineCategories)
  /\ pc' = "extracted"
  /\ UNCHANGED <<command, dir, levels, report, output, exitCode, blockLines, threads, input>>

NextReferences == ExtractReferenceIds

SpecReferences == InitReferences /\ [][NextReferences]_vars

----------------------------------------------------------------------------
(* Claims about extractReferenceIds, checked under SpecReferences *)

Extracted == pc = "extracted"

\* The entries of the list fields of the configured categories: the
\* category's place in the list and the entry's place in the field.
ListEntries ==
  {e \in (DOMAIN input.spineCategories) \X (1..(MaxEntries + 1)) :
     LET value == input.metadata[input.spineCategories[e[1]].key]
     IN value.type = "array" /\ e[2] <= Len(value.entries)}

EntryAt(e) == trim(input.metadata[input.spineCategories[e[1]].key].entries[e[2]])

\* The entry is the category's prefix, a hyphen and one or more of A-Z, 0-9
\* and the hyphen.
MatchesPattern(e) ==
  LET prefix == input.spineCategories[e[1]].prefix
      id == EntryAt(e)
  IN \E n \in 1..Len(id) :
       /\ n = Len(prefix) + 1
       /\ n < Len(id)
       /\ SubSeq(id, 1, n - 1) = prefix
       /\ id[n] = "-"
       /\ \A i \in (n + 1)..Len(id) : id[i] \in IdCharacters

MismatchIssues ==
  {i \in DOMAIN result.issues :
     result.issues[i].level = "error" /\ result.issues[i].kind = "invalid-reference"}

\* C15: the reference set holds the trimmed entries of the list fields that
\* match their category's pattern, each once, and every entry that does not
\* match gives one pattern-mismatch error and is left out; CHAR-X passes for
\* the prefix CHAR and char-x fails.
C15_ReferenceSet ==
  Extracted =>
    /\ Range(result.ids) = {EntryAt(e) : e \in {x \in ListEntries : MatchesPattern(x)}}
    /\ Cardinality(Range(result.ids)) = Len(result.ids)
    /\ Cardinality(MismatchIssues) = Cardinality({e \in ListEntries : ~MatchesPattern(e)})
    /\ \A e \in ListEntries :
         /\ (input.spineCategories[e[1]] = CharCategory
               /\ EntryAt(e) = <<"C", "H", "A", "R", "-", "X">>)
              => EntryAt(e) \in Range(result.ids)
         /\ EntryAt(e) = <<"c", "h", "a", "r", "-", "x">> => EntryAt(e) \notin Range(result.ids)

C15_Witness ==
  /\ Extracted
  /\ input.spineCategories = <<CharCategory, LocCategory>>
  /\ input.metadata.characters
       = ArrayValue(<<<<" ", "C", "H", "A", "R", "-", "X", " ">>, <<"C", "H", "A", "R", "-", "X">>>>)
  /\ input.metadata.locations
       = ArrayValue(<<<<"c", "h", "a", "r", "-", "x">>, <<"L", "O", "C", "-", "A", "1">>>>)
  /\ Len(result.ids) = 2
  /\ Cardinality(MismatchIssues) = 1

----------------------------------------------------------------------------
(* The text of one manuscript file, its header parsed and its prose searched
   for catalog identifiers, as parseChapter does *)

ProseLineKinds == {"delimiter", "pair-ref", "text", "mention", "mention-twice"}

\* The text with lines of the given kinds; a header line has the key
\* "characters".
ProseOf(kinds) ==
  [i \in DOMAIN kinds |->
     BodyLine(kinds[i],
              IF kinds[i] = "pair-ref" THEN "characters" ELSE EmptyString,
              IF kinds[i] = "delimiter" THEN 0 ELSE i,
              IF i = Len(kinds) THEN "None" ELSE "LF")]

InitMentions ==
  /\ command = "validate"
  /\ pc = "prose"
  /\ dir = <<>>
  /\ levels = <<>>
  /\ report = EmptyReport(<<>>, <<>>)
  /\ output = NotWritten
  /\ exitCode = 0
  /\ blockLines = <<>>
  /\ threads = NoThreads
  /\ \E m \in 1..MaxLines :
       \E kinds \in [1..m -> ProseLineKinds], spineCategories \in CategoryLists :
         input = [raw |-> ProseOf(kinds), spineCategories |-> spineCategories]
  /\ result = NoResult

\* parseChapter: parseMetadata(raw, chapterPath, false), then
\* findInlineSpineIdMentions(body, relativePath, inlineIdRegex) with the
\* expression resolveSpineSchema built.
FindInlineMentions ==
  /\ pc = "prose"
  /\ \E relativePath \in {RelativePath(CommentedFile)} :
       \E parsed \in {parseMetadataText(input.raw, relativePath, FALSE)} :
         result' = [metadata |-> parsed.metadata,
                    body |-> parsed.body,
                    issues |-> parsed.issues
                               \o findInlineSpineIdMentions(parsed.body, relativePath,
                                    buildInlineIdRegex(input.spineCategories))]
  /\ pc' = "searched"
  /\ UNCHANGED <<command, dir, levels, report, output, exitCode, blockLines, threads, input>>

NextMentions == FindInlineMentions

SpecMentions == InitMentions /\ [][NextMentions]_vars

----------------------------------------------------------------------------
(* Claims about findInlineSpineIdMentions, checked under SpecMentions *)

Searched == pc = "searched"

\* The file has no header block, or a header block of one or more lines
\* that is closed; HeaderEnd is the line of the closing delimiter (0: none).
HeaderEnd ==
  IF input.raw[1].kind # "delimiter" THEN 0
  ELSE LET closing == {k \in 3..Len(input.raw) : input.raw[k].kind = "delimiter"}
       IN IF closing = {} THEN Len(input.raw) + 1
          ELSE CHOOSE k \in closing : \A j \in closing : k <= j

HeaderWellFormed == HeaderEnd <= Len(input.raw)

ProseLines == (HeaderEnd + 1)..Len(input.raw)

\* The identifiers on a line that start with the prefix of a category.
CatalogIdentifiersOn(i) ==
  {n \in DOMAIN IdentifiersOf(input.raw[i]) :
     \E c \in DOMAIN input.spineCategories :
       LET prefix == input.spineCategories[c].prefix
           id == IdentifiersOf(input.raw[i])[n]
       IN Len(id) > Len(prefix) + 1 /\ SubSeq(id, 1, Len(prefix) + 1) = prefix \o <<"-">>}

ContinuityErrors ==
  {i \in DOMAIN result.issues :
     result.issues[i].level = "error" /\ result.issues[i].category = "continuity"}

ContinuityErrorsAt(line) == {i \in ContinuityErrors : result.issues[i].line = line}

\* C16: every occurrence of a catalog identifier in the prose gives one
\* continuity error, reported at the line of the file on which it occurs;
\* identifiers in header fields give none.
C16_InlineMentionsAtTheirLine ==
  (Searched /\ HeaderWellFormed) =>
    /\ \A i \in ProseLines :
         Cardinality(ContinuityErrorsAt(i)) = Cardinality(CatalogIdentifiersOn(i))
    /\ \A i \in (DOMAIN input.raw) \ ProseLines : ContinuityErrorsAt(i) = {}
    /\ \A i \in ContinuityErrors : result.issues[i].line \in DOMAIN input.raw

\* What holds of the code: one continuity error for every occurrence in the
\* prose and none for the header fields, the line counted from the first
\* line after the header block.
MentionsCountedFromBody ==
  (Searched /\ HeaderWellFormed) =>
    /\ \A i \in ProseLines :
         Cardinality(ContinuityErrorsAt(i - HeaderEnd)) = Cardinality(CatalogIdentifiersOn(i))
    /\ \A i \in ContinuityErrors : result.issues[i].line + HeaderEnd \in ProseLines

----------------------------------------------------------------------------
(* The categories of one project file, resolved as inspectProject does *)

DeclaredKeys == {<<"c">>, <<" ", "c">>, <<"l">>, <<"C">>}

DeclaredPrefixes == {<<"C", "H", "A", "R">>, <<"L", "O", "C">>, <<"C", "M", "T">>,
                     <<"c", "h", "a", "r">>}

DeclaredNotesFiles == {<<"a", ".", "m", "d">>, <<"b", ".", "m", "d">>, <<"a">>}

DeclaredEntries ==
  {NotAnObject}
  \cup {CategoryEntry(key, prefix, notesFile) :
          key \in DeclaredKeys, prefix \in DeclaredPrefixes, notesFile \in DeclaredNotesFiles}

InitSchema ==
  /\ command = "validate"
  /\ pc = "schema"
  /\ dir = <<>>
  /\ levels = <<>>
  /\ report = EmptyReport(<<>>, <<>>)
  /\ output = NotWritten
  /\ exitCode = 0
  /\ blockLines = <<>>
  /\ threads = NoThreads
  /\ \/ input = NoCategories
     \/ input = NotAnArray
     \/ \E n \in 0..MaxEntries :
          \E entries \in [1..n -> DeclaredEntries] : input = CategoryArray(entries)
  /\ result = NoResult

\* inspectProject: const spineSchema = resolveSpineSchema(project), its
\* issues pushed to the issues of the inspection.
ResolveSpineSchema ==
  /\ pc = "schema"
  /\ result' = resolveSpineSchema(input)
  /\ pc' = "resolved"
  /\ UNCHANGED <<command, dir, levels, report, output, exitCode, blockLines, threads, input>>

NextSchema == ResolveSpineSchema

SpecSchema == InitSchema /\ [][NextSchema]_vars

----------------------------------------------------------------------------
(* Claims about resolveSpineSchema, checked under SpecSchema *)

Resolved == pc = "resolved"

Accepted == result.categories

\* The declared entry, its fields trimmed, is well formed.
EntryValid(entry) ==
  /\ entry.object
  /\ KeyPatternTest(trim(entry.key))
  /\ PrefixPatternTest(trim(entry.prefix))
  /\ trim(entry.prefix) # RESERVED_COMMENT_PREFIX
  /\ NotesFilePatternTest(trim(entry.notesFile))

\* The declared entry shares its key, prefix or notes file with category c.
Clashes(entry, c) ==
  \/ trim(entry.key) = c.key
  \/ trim(entry.prefix) = c.prefix
  \/ trim(entry.notesFile) = c.notesFile

\* The declared entry is the one accepted as category c.
AcceptedAs(entry, c) ==
  /\ trim(entry.key) = c.key
  /\ trim(entry.prefix) = c.prefix
  /\ trim(entry.notesFile) = c.notesFile

SchemaErrors == {i \in DOMAIN result.issues : result.issues[i].level = "error"}

\* C17: the accepted categories are well formed, pairwise distinct in key,
\* in prefix and in notes file, and none has the prefix CMT; every declared
\* entry is either accepted or excluded with one error, and an entry is
\* excluded only if it is invalid or clashes with an accepted category; a
\* list that is not an array gives no category and one error.
C17_AcceptedCategoriesDistinct ==
  Resolved =>
    /\ \A i, j \in DOMAIN Accepted :
         i # j => /\ Accepted[i].key # Accepted[j].key
                  /\ Accepted[i].prefix # Accepted[j].prefix
                  /\ Accepted[i].notesFile # Accepted[j].notesFile
    /\ \A i \in DOMAIN Accepted :
         /\ Accepted[i].prefix # RESERVED_COMMENT_PREFIX
         /\ \E e \in DOMAIN input.entries :
              EntryValid(input.entries[e]) /\ AcceptedAs(input.entries[e], Accepted[i])
    /\ Len(Accepted) + Cardinality(SchemaErrors) = Len(input.entries)
                                                   + (IF input.type = "other" THEN 1 ELSE 0)
    /\ \A e \in DOMAIN input.entries :
         EntryValid(input.entries[e]) =>
           \E i \in DOMAIN Accepted : Clashes(input.entries[e], Accepted[i])
    /\ input.type = "other" => Accepted = <<>> /\ Cardinality(SchemaErrors) = 1
    /\ Len(result.issues) = Cardinality(SchemaErrors)

\* Two valid entries that differ in key and notes file but share a prefix
\* were declared: one is accepted, the other excluded with an error.
C17_Witness ==
  /\ Resolved
  /\ input.type = "array"
  /\ Len(input.entries) = 2
  /\ EntryValid(input.entries[1]) /\ EntryValid(input.entries[2])
  /\ trim(input.entries[1].prefix) = trim(input.entries[2].prefix)
  /\ trim(input.entries[1].key) # trim(input.entries[2].key)
  /\ input.entries[1].notesFile # input.entries[2].notesFile
  /\ Len(Accepted) = 1
  /\ Cardinality(SchemaErrors) = 1

----------------------------------------------------------------------------
(* One manuscript file whose grouping fields may hold a list, parsed by
   parseChapter under every configuration of levels *)

GroupingValues == {Undefined, "", "1", ListValue}

FileWithGrouping(part, partTitle, chapter, chapterTitle) ==
  [ManuscriptFile(<<"1","0","0","-","a">>, FALSE, "draft", part, chapter)
     EXCEPT !.metadata["part_title"] = partTitle, !.metadata["chapter_title"] = chapterTitle]

InitGrouping ==
  /\ command = "validate"
  /\ pc = "chapter"
  /\ dir = <<>>
  /\ levels = <<>>
  /\ report = EmptyReport(<<>>, <<>>)
  /\ output = NotWritten
  /\ exitCode = 0
  /\ blockLines = <<>>
  /\ threads = NoThreads
  /\ \E part \in GroupingValues, partTitle \in GroupingValues, chapter \in GroupingValues,
        chapterTitle \in {Undefined, ListValue}, compileStructureLevels \in LevelConfigs :
       input = [file |-> FileWithGrouping(part, partTitle, chapter, chapterTitle),
                compileStructureLevels |-> compileStructureLevels]
  /\ result = NoResult

ParseChapter ==
  /\ pc = "chapter"
  /\ result' = parseChapter(input.file, input.compileStructureLevels)
  /\ pc' = "chapter-parsed"
  /\ UNCHANGED <<command, dir, levels, report, output, exitCode, blockLines, threads, input>>

NextGrouping == ParseChapter

SpecGrouping == InitGrouping /\ [][NextGrouping]_vars

----------------------------------------------------------------------------
(* Claims about normalizeGroupingValue, checked under SpecGrouping *)

ChapterParsed == pc = "chapter-parsed"

\* The keys and title keys of the configured levels.
GroupingFields ==
  {input.compileStructureLevels[i].key : i \in DOMAIN input.compileStructureLevels}
  \cup {input.compileStructureLevels[i].titleKey : i \in DOMAIN input.compileStructureLevels}

HoldsList(field) == input.file.metadata[field] = ListValue

ScalarIssues(field) ==
  {i \in DOMAIN result.issues :
     result.issues[i].kind = "must-be-scalar" /\ result.issues[i].ref = <<field>>}

HasNoValueOfItsOwn(field) ==
  field \in DOMAIN result.groupValues => result.groupValues[field] = Undefined

\* C18 (as amended): a grouping field whose header value is a list is
\* reported once, as an error, and the level has no value of its own for
\* the document; a field with a scalar value or none is not reported.
C18_ListValueIsError ==
  ChapterParsed =>
    \A field \in GroupingFields :
      IF HoldsList(field)
        THEN /\ Cardinality(ScalarIssues(field)) = 1
             /\ \A i \in ScalarIssues(field) : result.issues[i].level = "error"
             /\ HasNoValueOfItsOwn(field)
        ELSE ScalarIssues(field) = {}

\* The chapter key holds a list under the levels part and chapter.
C18_Witness ==
  /\ ChapterParsed
  /\ Len(input.compileStructureLevels) = 2
  /\ HoldsList("chapter")
  /\ ~HoldsList("part")
  /\ ScalarIssues("chapter") # {}
  /\ HasError(result.issues)

\* C18 (as stated): a grouping field whose header value is a list is
\* reported as a warning, not as an error that blocks, and the level has no
\* value of its own for the document.
C18_ListValueIsWarning ==
  ChapterParsed =>
    \A field \in GroupingFields :
      HoldsList(field) =>
        /\ ScalarIssues(field) # {}
        /\ \A i \in ScalarIssues(field) : result.issues[i].level = "warning"
        /\ HasNoValueOfItsOwn(field)

----------------------------------------------------------------------------
(* inspectProject over every listing of up to MaxFiles files, for projects
   whose declared categories are absent, valid or in part invalid *)

ValidEntry == CategoryEntry(<<"c">>, <<"C", "H", "A", "R">>, <<"a", ".", "m", "d">>)

DeclaredSchemas ==
  {NoCategories, NotAnArray, CategoryArray(<<ValidEntry>>),
   CategoryArray(<<ValidEntry, NotAnObject, ValidEntry>>)}

InitInspect ==
  /\ command = "validate"
  /\ pc = "project"
  /\ dir = <<>>
  /\ levels = <<PartLevel(TRUE, "between-groups"), ChapterLevel(TRUE, "between-groups")>>
  /\ report = EmptyReport(<<>>, <<>>)
  /\ output = NotWritten
  /\ exitCode = 0
  /\ blockLines = <<>>
  /\ threads = NoThreads
  /\ \E listing \in Listings(FileUniverse, MaxFiles), spineCategories \in DeclaredSchemas :
       input = [listing |-> listing, spineCategories |-> spineCategories]
  /\ result = NoResult

InspectProject ==
  /\ pc = "project"
  /\ result' = inspectProject(resolveSpineSchema(input.spineCategories), input.listing, levels)
  /\ pc' = "project-inspected"
  /\ UNCHANGED <<command, dir, levels, report, output, exitCode, blockLines, threads, input>>

NextInspect == InspectProject

SpecInspect == InitInspect /\ [][NextInspect]_vars

----------------------------------------------------------------------------
(* Claims about the issues inspectProject returns, checked under SpecInspect *)

ProjectInspected == pc = "project-inspected"

DocumentsEnumerated == Len(input.listing) > 0

\* The issues of the report about one file, in order, other than those
\* inspectProject adds itself for a repeated order prefix.
ReportedFor(file) ==
  SelectSeq(result.issues,
            LAMBDA issue : issue.file = file /\ issue.kind # "duplicate-order")

SchemaIssuesReported == ReportedFor(ProjectFile)

----------------------------------------------------------------------------
(* The grouping levels of one project file, resolved as inspectProject does *)

LevelKeys == {<<"p">>, <<" ", "p">>, <<"c">>, <<"P">>}

LevelLabels == {<<"P">>, <<" ">>}

LevelTitleKeys == {<<>>, <<"t">>, <<"T">>}

PageBreakBeforeGroup == <<"b", "e", "f", "o", "r", "e", "-", "g", "r", "o", "u", "p">>

LevelEntries ==
  {NotALevelObject}
  \cup {LevelEntry(key, label, titleKey, FALSE, <<>>) :
          key \in LevelKeys, label \in LevelLabels, titleKey \in LevelTitleKeys}
  \cup {LevelEntry(key, label, titleKey, TRUE, pageBreak) :
          key \in LevelKeys, label \in LevelLabels, titleKey \in LevelTitleKeys,
          pageBreak \in {PageBreakBetweenGroups, PageBreakBeforeGroup}}

InitStructure ==
  /\ command = "validate"
  /\ pc = "structure"
  /\ dir = <<>>
  /\ levels = <<>>
  /\ report = EmptyReport(<<>>, <<>>)
  /\ output = NotWritten
  /\ exitCode = 0
  /\ blockLines = <<>>
  /\ threads = NoThreads
  /\ \/ input \in {NoCompileStructure, CompileStructureNotObject, LevelsNotArray}
     \/ \E n \in 0..MaxEntries :
          \E entries \in [1..n -> LevelEntries] : input = CompileStructureOf(entries)
  /\ result = NoResult

\* inspectProject: const compileStructureState = resolveCompileStructure(project)
ResolveCompileStructure ==
  /\ pc = "structure"
  /\ result' = resolveCompileStructure(input)
  /\ pc' = "structure-resolved"
  /\ UNCHANGED <<command, dir, levels, report, output, exitCode, blockLines, threads, input>>

NextStructure == ResolveCompileStructure

SpecStructure == InitStructure /\ [][NextStructure]_vars

----------------------------------------------------------------------------
(* Claims about resolveCompileStructure, checked under SpecStructure *)

StructureResolved == pc = "structure-resolved"

\* The declared entry meets what the claim asks of a level, but for the key
\* being new.
LevelWellFormed(entry) ==
  /\ entry.object
  /\ KeyPatternTest(trim(entry.key))
  /\ trim(entry.label) # <<>>
  /\ trim(entry.titleKey) # <<>> => KeyPatternTest(trim(entry.titleKey))
  /\ entry.hasPageBreak => trim(entry.pageBreak) \in {PageBreakNone, PageBreakBetweenGroups}

StructureErrors == {i \in DOMAIN result.issues : result.issues[i].level = "error"}

PageBreakErrors ==
  {i \in DOMAIN result.issues : result.issues[i].kind = "invalid-page-break"}

\* C21: an accepted level comes from a well formed entry (key of the right
\* shape, label, title key of the right shape if any, pageBreak none or
\* between-groups); every declared entry is either one accepted level or one
\* error, which makes validation fail; the keys of the accepted levels are
\* pairwise distinct.
C21_LevelsAcceptedOrReported ==
  StructureResolved =>
    /\ \A i \in DOMAIN result.levels :
         /\ KeyPatternTest(result.levels[i].key)
         /\ result.levels[i].label # <<>>
         /\ result.levels[i].hasTitleKey => KeyPatternTest(result.levels[i].titleKey)
         /\ result.levels[i].pageBreak \in {PageBreakNone, PageBreakBetweenGroups}
         /\ \E e \in DOMAIN input.entries :
              /\ LevelWellFormed(input.entries[e])
              /\ trim(input.entries[e].key) = result.levels[i].key
    /\ \A i, j \in DOMAIN result.levels :
         i # j => result.levels[i].key # result.levels[j].key
    /\ input.levelsIsArray =>
         Len(result.levels) + Cardinality(StructureErrors) = Len(input.entries)
    /\ \A e \in DOMAIN input.entries :
         ~LevelWellFormed(input.entries[e]) =>
           Cardinality(StructureErrors) >= 1 /\ exitIfErrors(result.issues)
    /\ Len(result.issues) = Cardinality(StructureErrors)
    /\ (input.type = "object" /\ ~input.levelsIsArray) \/ input.type = "other" =>
         result.levels = <<>> /\ Cardinality(StructureErrors) = 1

\* The first level declares pageBreak 'before-group' and is otherwise well
\* formed: the error names levels[0].pageBreak and no level is accepted.
C21_Witness ==
  /\ StructureResolved
  /\ input.levelsIsArray
  /\ Len(input.entries) = 1
  /\ input.entries[1].object
  /\ input.entries[1].hasPageBreak
  /\ input.entries[1].pageBreak = PageBreakBeforeGroup
  /\ KeyPatternTest(trim(input.entries[1].key))
  /\ trim(input.entries[1].label) # <<>>
  /\ \E i \in PageBreakErrors : result.issues[i].ref = <<IndexText(0)>>
  /\ result.levels = <<>>
  /\ exitIfErrors(result.issues)

----------------------------------------------------------------------------
(* The check-stage command over manuscript directories of up to MaxFiles
   files, each with a status or none and with comment threads or none *)

FileStatuses == {"draft", "final", "bogus", Undefined}

OpenThread == [id |-> "CMT-0001", resolved |-> FALSE, thread |-> <<"message">>]

ResolvedThread == [id |-> "CMT-0002", resolved |-> TRUE, thread |-> <<"message">>]

ThreadLists == {<<>>, <<ResolvedThread>>, <<ResolvedThread, OpenThread>>}

StageFile(i, status, comments) ==
  [ManuscriptFile(<<DigitChar(i), "0", "0", "-", "a">>, FALSE, status, Undefined, Undefined)
     EXCEPT !.comments = comments]

Stages == {"revise", "final"}

InitStage ==
  /\ command = "check-stage"
  /\ pc = "start"
  /\ \E n \in 1..MaxFiles :
       \E statuses \in [1..n -> FileStatuses], comments \in [1..n -> ThreadLists] :
         dir = [i \in 1..n |-> StageFile(i, statuses[i], comments[i])]
  /\ levels = <<>>
  /\ report = EmptyReport(<<>>, <<>>)
  /\ output = NotWritten
  /\ exitCode = 0
  /\ blockLines = <<>>
  /\ threads = NoThreads
  /\ \E stage \in Stages, requireResolvedComments \in BOOLEAN, enforceMarkdownlint \in BOOLEAN :
       input = [stage |-> stage,
                policy |-> StagePolicy(stage, requireResolvedComments, enforceMarkdownlint)]
  /\ result = NoResult

\* case "check-stage": const report = runStageCheck(project, config, stage, requestedFile)
RunStageCheck ==
  /\ pc = "start"
  /\ command = "check-stage"
  /\ \E lintFails \in BOOLEAN :
       \E inspected \in {inspectProject(resolveSpineSchema(NoCategories), dir, levels)} :
         report' = runStageCheck(inspected, input.stage, input.policy, lintFails)
  /\ pc' = "inspected"
  /\ UNCHANGED <<command, dir, levels, output, exitCode, blockLines, threads, input, result>>

\* logLine("Stage check passed ...")
StageCheckPassed ==
  /\ pc = "checked"
  /\ command = "check-stage"
  /\ pc' = "done"
  /\ UNCHANGED <<command, dir, levels, report, output, exitCode, blockLines, threads, input, result>>

NextStage == RunStageCheck \/ ExitIfErrors \/ StageCheckPassed

SpecStage == InitStage /\ [][NextStage]_vars

----------------------------------------------------------------------------
(* Claims about runStageCheck, checked under SpecStage *)

StageChecked == pc \in {"inspected", "exited", "checked", "done"}

StageCheckPasses == StageChecked /\ ~HasError(report.issues)

StatusOf(i) == dir[i].metadata["status"]

StageErrorsFor(i) ==
  {k \in DOMAIN report.issues :
     /\ report.issues[k].level = "error"
     /\ report.issues[k].category = "stage"
     /\ report.issues[k].file = RelativePath(dir[i])}

HasOpenThread(i) == \E c \in DOMAIN dir[i].comments : ~dir[i].comments[c].resolved

UnresolvedErrorsFor(i) ==
  {k \in DOMAIN report.issues :
     /\ report.issues[k].level = "error"
     /\ report.issues[k].category = "comments"
     /\ report.issues[k].kind = "unresolved-comments"
     /\ report.issues[k].file = RelativePath(dir[i])}

\* C24: when the policy of the stage sets requireResolvedComments, every
\* inspected file with a comment thread that is not resolved has an
\* 'Unresolved comments' error, and the stage check does not pass.
C24_UnresolvedCommentsBlock ==
  (StageChecked /\ input.policy.requireResolvedComments) =>
    \A i \in DOMAIN dir :
      HasOpenThread(i) => UnresolvedErrorsFor(i) # {} /\ ~StageCheckPasses

\* What holds of the code: the error is reported for the files whose status
\* is a stage name.
UnresolvedReportedWhereStatusValid ==
  (StageChecked /\ input.policy.requireResolvedComments) =>
    \A i \in DOMAIN dir :
      (HasOpenThread(i) /\ isStageName(StatusOf(i))) =>
        UnresolvedErrorsFor(i) # {} /\ ~StageCheckPasses

----------------------------------------------------------------------------
(* The value of one header line, coerced and turned back into text *)

ValueCharacters == {"0", "7", "-", "a", "\"", "[", "]"}

InitValue ==
  /\ command = "validate"
  /\ pc = "value"
  /\ dir = <<>>
  /\ levels = <<>>
  /\ report = EmptyReport(<<>>, <<>>)
  /\ output = NotWritten
  /\ exitCode = 0
  /\ blockLines = <<>>
  /\ threads = NoThreads
  /\ \/ input \in {TrueText, FalseText}
     \/ \E n \in 1..MaxChars : \E value \in [1..n -> ValueCharacters] : input = value
  /\ result = NoResult

\* parseMetadata: metadata[key] = coerceMetadataValue(value), and the text
\* String() gives for the stored value.
CoerceValue ==
  /\ pc = "value"
  /\ \E parsed \in {coerceMetadataValue(input)} :
       result' = [value |-> parsed, text |-> String(parsed)]
  /\ pc' = "coerced"
  /\ UNCHANGED <<command, dir, levels, report, output, exitCode, blockLines, threads, input>>

NextValue == CoerceValue

SpecValue == InitValue /\ [][NextValue]_vars

----------------------------------------------------------------------------
(* Claims about coerceMetadataValue, checked under SpecValue *)

Coerced == pc = "coerced"

\* The value is a scalar without quotes, brackets or commas.
PlainScalar == \A i \in DOMAIN input : input[i] \notin Quotes \cup {"[", "]", ","}

\* An integer in the form String() prints: no leading zero, no -0.
CanonicalInteger ==
  LET digits == IF startsWith(input, "-") THEN Tail(input) ELSE input
  IN /\ IsIntegerText(input)
     /\ Len(digits) > 1 => digits[1] # "0"
     /\ input # <<"-", "0">>

RoundTrips == result.text = input

\* C23 (as amended): a scalar value without delimiter characters that is
\* not an integer, or is an integer in canonical decimal form, comes back as
\* the text it was; any other integer comes back as the canonical form of
\* its number.
C23_RoundTripButForIntegerForm ==
  (Coerced /\ PlainScalar) =>
    /\ (~IsIntegerText(input) \/ CanonicalInteger) => RoundTrips
    /\ IsIntegerText(input) =>
         /\ result.value.type = "number"
         /\ result.text = NumberText(result.value.number)
         /\ NumberFromText(result.text) = NumberFromText(input)
    /\ (IsIntegerText(input) /\ ~CanonicalInteger) => ~RoundTrips

\* The value 70 was stored as a number and came back as the text it was.
C23_Witness ==
  /\ Coerced
  /\ PlainScalar
  /\ input = <<"7", "0">>
  /\ result.value.type = "number"
  /\ result.value.number = 70
  /\ RoundTrips

\* C23 (as stated): every scalar value without delimiter characters comes
\* back as the text it was.
C23_RoundTrip == (Coerced /\ PlainScalar) => RoundTrips

----------------------------------------------------------------------------
(* Claims about the order of the compiled lines, checked under SpecBuild *)

LinesOfKind(kind) == {n \in DOMAIN output.lines : output.lines[n].kind = kind}

\* The lines of document i from its own heading to its body.
OwnLinesOf(i) ==
  {n \in DOMAIN output.lines :
     /\ output.lines[n].kind \in {"entry-heading", "source", "body"}
     /\ output.lines[n].text = Chapters[i].relativePath}

GroupHeadingsOf(i) == GroupLinesOf(i) \cap LinesOfKind("heading")

BreaksOf(i) == GroupLinesOf(i) \cap LinesOfKind("newpage")

\* The headings of a document come in level order; its own heading, its
\* provenance comment and its body follow them in that order, once each;
\* the documents come in the order of the sorted chapters.
DocumentsInOrder ==
  /\ \A i \in DOMAIN Chapters :
       /\ \A m, n \in GroupHeadingsOf(i) :
            m < n => output.lines[m].level < output.lines[n].level
       /\ Cardinality(OwnLinesOf(i)) = 3
       /\ \A n \in OwnLinesOf(i) :
            output.lines[n].kind = CASE n = EntryLine(i) -> "entry-heading"
                                     [] n = EntryLine(i) + 2 -> "source"
                                     [] n = EntryLine(i) + 4 -> "body"
                                     [] OTHER -> "none"
       /\ \A n \in GroupHeadingsOf(i) \cup BreaksOf(i) : n < EntryLine(i)
  /\ \A i, j \in DOMAIN Chapters : i < j => EntryLine(i) + 4 < EntryLine(j)
  /\ Cardinality(LinesOfKind("entry-heading")) = Len(Chapters)

\* C25 (as amended): the page-break marker of a document comes before the
\* heading of the level that emitted it and before the headings of the
\* deeper levels, and after the headings of the enclosing levels; the rest
\* as stated.
C25_BreakBeforeHeadingsOfItsLevel ==
  output.written =>
    /\ DocumentsInOrder
    /\ \A i \in DOMAIN Chapters :
         /\ Cardinality(BreaksOf(i)) <= 1
         /\ \A b \in BreaksOf(i) : \A h \in GroupHeadingsOf(i) :
              IF output.lines[h].level >= output.lines[b].level THEN b < h ELSE h < b

\* The second document opens a new part and chapter; the part heading comes
\* first, then the page break of the chapter level, then the chapter heading.
C25_Witness ==
  /\ output.written
  /\ Len(Chapters) >= 2
  /\ \E b \in BreaksOf(2) : \E h1, h2 \in GroupHeadingsOf(2) :
       /\ h1 < b /\ b < h2
       /\ h2 < EntryLine(2)

\* C25 (as stated): the page-break marker of a document comes before every
\* group heading emitted for it.
C25_BreakBeforeEveryHeading ==
  output.written =>
    /\ DocumentsInOrder
    /\ \A i \in DOMAIN Chapters :
         \A b \in BreaksOf(i) : \A h \in GroupHeadingsOf(i) : b < h


----------------------------------------------------------------------------
(* The header block of one manuscript file, between its two delimiter
   lines, handed to parseMetadata *)

MaxHeaderLines == 5

HeaderLineKinds ==
  {"pair", "text", "blank", "key-empty", "item", "indented-text", "indented-pair"}

\* The file with the header lines of the given kinds and no body; the line
\* with a key on line i of the block has the i-th key, and a line with a
\* value has its own value.
HeaderOf(kinds) ==
  <<BodyLine("delimiter", EmptyString, 0, "LF")>>
  \o [i \in DOMAIN kinds |->
        BodyLine(kinds[i],
                 IF kinds[i] \in {"pair", "key-empty", "indented-pair"}
                   THEN HeaderKeys[i] ELSE EmptyString,
                 IF kinds[i] \in {"pair", "text", "item", "indented-text", "indented-pair"}
                   THEN i ELSE 0,
                 "LF")]
  \o <<BodyLine("delimiter", EmptyString, 0, "None")>>

InitHeader ==
  /\ command = "validate"
  /\ pc = "header"
  /\ dir = <<>>
  /\ levels = <<>>
  /\ report = EmptyReport(<<>>, <<>>)
  /\ output = NotWritten
  /\ exitCode = 0
  /\ blockLines = <<>>
  /\ threads = NoThreads
  /\ \E m \in 1..MaxHeaderLines :
       \E kinds \in [1..m -> HeaderLineKinds] :
         input = [raw |-> HeaderOf(kinds), required |-> TRUE]
  /\ result = NoResult

\* parseMetadata(raw, chapterPath, required)
ParseHeader ==
  /\ pc = "header"
  /\ result' = parseMetadataText(input.raw, RelativePath(CommentedFile), input.required)
  /\ pc' = "parsed-header"
  /\ UNCHANGED <<command, dir, levels, report, output, exitCode, blockLines, threads, input>>

NextHeader == ParseHeader

SpecHeader == InitHeader /\ [][NextHeader]_vars

----------------------------------------------------------------------------
(* Claims about the lines of the header block, checked under SpecHeader *)

HeaderParsed == pc = "parsed-header"

\* The lines between the two delimiter lines; line k of the block is line
\* k + 1 of the file.
Block == SubSeq(input.raw, 2, Len(input.raw) - 1)

FileLine(k) == k + 1

\* The lines after line k that are not blank.
Followers(k) == {j \in (k + 1)..Len(Block) : Block[j].kind # "blank"}

\* Line k is a key with an empty value and the next line that is not blank
\* is an indented "- " line.
OpensListAt(k) ==
  /\ Block[k].kind = "key-empty"
  /\ Followers(k) # {}
  /\ Block[Least(Followers(k))].kind = "item"

ZeroIndentKinds == {"pair", "text", "key-empty"}

\* The first line after line k that starts in the first column; one past the
\* block if there is none.
NextZeroIndent(k) ==
  Least({j \in (k + 1)..Len(Block) : Block[j].kind \in ZeroIndentKinds} \cup {Len(Block) + 1})

\* The first line after line k that starts in the first column or is
\* indented without starting with "- ".
NextZeroIndentOrUnsupported(k) ==
  Least({j \in (k + 1)..Len(Block) :
           Block[j].kind \in ZeroIndentKinds \cup {"indented-text", "indented-pair"}}
        \cup {Len(Block) + 1})

\* The values of the "- " lines after line k and before line e.
ItemsBetween(k, e) ==
  LET items == SelectSeq(SubSeq(Block, k + 1, e - 1), LAMBDA line : line.kind = "item")
  IN [n \in DOMAIN items |-> items[n].text]

\* The issues reported with the given line number.
IssuesAtLine(line) == {n \in DOMAIN result.issues : result.issues[n].line = line}

\* Exactly one issue has the given line number, and it is of the given kind.
OneIssueAt(line, kind) ==
  /\ Cardinality(IssuesAtLine(line)) = 1
  /\ \A n \in IssuesAtLine(line) :
       /\ result.issues[n].level = "error"
       /\ result.issues[n].kind = kind

\* C26 (amended): for a key with an empty value followed by indented "- "
\* lines, the list holds every "- " line up to the first line that starts in
\* the first column (or the end of the block): an indented line that does not
\* start with "- " is reported with one error of its own and passed over,
\* and the "- " lines after it still go into the list.  The loop over the
\* header goes on at the line where the list stopped.  Lines are counted
\* from the first line of the block.
C26_ListStopsAtZeroIndentOnly ==
  HeaderParsed =>
    \A k \in DOMAIN Block :
      OpensListAt(k) =>
        LET e == NextZeroIndent(k)
        IN /\ result.metadata[Block[k].id] = ItemsBetween(k, e)
           /\ \A j \in (k + 1)..(e - 1) :
                /\ Block[j].kind \in {"indented-text", "indented-pair"}
                     => OneIssueAt(j, "unsupported-list-line")
                /\ Block[j].kind = "item" => IssuesAtLine(j) = {}
           /\ e <= Len(Block) =>
                /\ Block[e].kind = "text" => OneIssueAt(e, "invalid-metadata-line")
                /\ Block[e].kind \in {"pair", "key-empty"}
                     => Block[e].id \in DOMAIN result.metadata

\* A list with an indented line that is no item between two items, stopped
\* by a pair that is stored.
C26_Witness ==
  /\ HeaderParsed
  /\ Len(Block) = 5
  /\ OpensListAt(1)
  /\ Block[2].kind = "item"
  /\ Block[3].kind = "indented-text"
  /\ Block[4].kind = "item"
  /\ Block[5].kind = "pair"
  /\ result.metadata[Block[1].id] = <<2, 4>>
  /\ Len(result.issues) = 1
  /\ Block[5].id \in DOMAIN result.metadata

\* C26 as stated: the list stops at the first line that starts in the first
\* column or at the first indented line that does not start with "- ", and
\* the latter is reported with one error.
C26_ListStopsAtUnsupportedLine ==
  HeaderParsed =>
    \A k \in DOMAIN Block :
      OpensListAt(k) =>
        LET e == NextZeroIndentOrUnsupported(k)
        IN /\ result.metadata[Block[k].id] = ItemsBetween(k, e)
           /\ (e <= Len(Block) /\ Block[e].kind \in {"indented-text", "indented-pair"})
                => OneIssueAt(e, "unsupported-list-line")

\* Line j belongs to the list opened before it.
InList(j) == \E k \in 1..(j - 1) : OpensListAt(k) /\ j < NextZeroIndent(k)

\* A line that is neither blank nor a comment, holds no colon and is no item
\* of a list.
Malformed(k) ==
  \/ Block[k].kind \in {"text", "indented-text"}
  \/ Block[k].kind = "item" /\ ~InList(k)

\* Every key: value line after line k is in the header map with its value.
LaterPairsStored(k) ==
  \A j \in (k + 1)..Len(Block) :
    Block[j].kind = "pair"
      => /\ Block[j].id \in DOMAIN result.metadata
         /\ result.metadata[Block[j].id] = j

\* C27: every malformed line of the header gives exactly one error with the
\* number of that line in the file (counted from 1), and every well-formed
\* key: value line after it is still stored in the header map.
C27_MalformedLinesAtTheirLine ==
  HeaderParsed =>
    \A k \in DOMAIN Block :
      Malformed(k) =>
        /\ Cardinality(IssuesAtLine(FileLine(k))) = 1
        /\ LaterPairsStored(k)

\* The same with the lines counted from the first line of the header block,
\* and with no errors but those of the malformed lines.
MalformedLinesCountedFromBlock ==
  HeaderParsed =>
    /\ \A k \in DOMAIN Block :
         Malformed(k) =>
           /\ Cardinality(IssuesAtLine(k)) = 1
           /\ LaterPairsStored(k)
    /\ \A n \in DOMAIN result.issues :
         /\ result.issues[n].line \in DOMAIN Block
         /\ \/ Malformed(result.issues[n].line)
            \/ Block[result.issues[n].line].kind = "indented-pair"
               /\ InList(result.issues[n].line)


----------------------------------------------------------------------------
(* buildManuscript over documents that set or leave out the titles of their
   part and chapter *)

PartTitles == <<"Dawn", "Noon", "Dusk", "Night">>

ChapterTitles == <<"Inn", "Quay", "Mill", "Ford">>

\* The i-th document with the given part and chapter fields; a title it sets
\* is a title of its own.
TitledFile(i, part, chapter, partTitled, chapterTitled) ==
  [GroupedFile(i, part, chapter)
     EXCEPT !.metadata["part_title"] = IF partTitled THEN PartTitles[i] ELSE Undefined,
            !.metadata["chapter_title"] = IF chapterTitled THEN ChapterTitles[i] ELSE Undefined]

\* The build command after inspectProject, for the two nested levels of the
\* README's example with injected headings; every document is chapter 1 of
\* its part.
InitTitles ==
  /\ command = "build"
  /\ pc = "checked"
  /\ levels = <<PartLevel(TRUE, "none"), ChapterLevel(TRUE, "none")>>
  /\ \E n \in 1..MaxDocs :
       \E parts \in [1..n -> GroupValues],
          partTitled \in [1..n -> BOOLEAN], chapterTitled \in [1..n -> BOOLEAN] :
         dir = [i \in 1..n |-> TitledFile(i, parts[i], "1", partTitled[i], chapterTitled[i])]
  /\ report = inspectProject(resolveSpineSchema(NoCategories), dir, levels)
  /\ output = NotWritten
  /\ exitCode = 0
  /\ blockLines = <<>>
  /\ threads = NoThreads
  /\ input = NoInput
  /\ result = NoResult

NextTitles == Build

SpecTitles == InitTitles /\ [][NextTitles]_vars

----------------------------------------------------------------------------
(* Claims about the titles of the group headings, checked under SpecTitles *)

\* The documents up to document i that set the title field of level l.
TitleSetters(i, l) == {j \in 1..i : Chapters[j].metadata[Lvls[l].titleKey] # Undefined}

\* The title document i sets for level l, or else the title of the last
\* document before it that sets one; undefined if there is none.
ExpectedTitle(i, l) ==
  IF TitleSetters(i, l) = {} THEN Undefined
  ELSE LET last == CHOOSE j \in TitleSetters(i, l) : \A k \in TitleSetters(i, l) : k <= j
       IN Chapters[last].metadata[Lvls[l].titleKey]

\* "{label} {value}: {title}" with the given title, if there is one.
HeadingWith(label, value, title) ==
  IF title = Undefined THEN <<label, value>> ELSE <<label, value, ":", title>>

\* The heading injected for level l before document i, if there is one.
HeadingsOfLevel(i, l) == {n \in GroupHeadingsOf(i) : output.lines[n].level = l - 1}

\* C28: the title in an injected group heading is the document's own title
\* for that level if it sets one, and else the title that the last earlier
\* document set for that level; the title is carried on over every
\* document, also where the value of the level or an enclosing level changed.
C28_TitleOwnOrMostRecent ==
  output.written =>
    \A i \in DOMAIN Chapters : \A l \in DOMAIN Lvls :
      /\ output.trace[i].currentTitles[l] = ExpectedTitle(i, l)
      /\ \A n \in HeadingsOfLevel(i, l) :
           output.lines[n].text =
             HeadingWith(Lvls[l].label, output.trace[i].currentValues[l], ExpectedTitle(i, l))

\* The first document sets both titles, the second sets none and opens part
\* 2, the third sets none and stays in it: the headings of the second carry
\* the titles of the first, and so does the third document.
C28_Witness ==
  /\ output.written
  /\ Len(Chapters) = 3
  /\ TitleSetters(3, 1) = {1} /\ TitleSetters(3, 2) = {1}
  /\ \E n \in HeadingsOfLevel(2, 1) : output.lines[n].text = <<"Part", "2", ":", "Dawn">>
  /\ \E n \in HeadingsOfLevel(2, 2) : output.lines[n].text = <<"Chapter", "1", ":", "Inn">>
  /\ output.trace[2].levelChanged = <<TRUE, TRUE>>
  /\ output.trace[3].levelChanged = <<FALSE, FALSE>>
  /\ output.trace[3].currentTitles = <<"Dawn", "Inn">>


----------------------------------------------------------------------------
(* The rows under one comment heading and what follows its first message *)

MaxReplyRows == 5

\* The appendix with one heading and up to MaxReplyRows lines after it; a
\* metadata row decodes to an open comment.
InitReplies ==
  /\ command = "validate"
  /\ pc = "comments"
  /\ dir = <<>>
  /\ levels = <<>>
  /\ report = EmptyReport(<<>>, <<>>)
  /\ output = NotWritten
  /\ exitCode = 0
  /\ \E n \in 0..MaxReplyRows :
       \E rows \in [1..n -> RowKinds] :
         blockLines = AppendixLines(<<"heading">> \o rows,
                                    MetaPayload("object", {"status", "anchor"}, StatusOpen))
  /\ threads = NoThreads
  /\ input = NoInput
  /\ result = NoResult

NextReplies == ParseComments

SpecReplies == InitReplies /\ [][NextReplies]_vars

----------------------------------------------------------------------------
(* Claims about the rows after the first message, checked under SpecReplies *)

MultipleMessageErrors(k) == ErrorsFor(Emitted(k).id, "multiple-message-blocks")

HasRecordedMessage(k) == Len(Emitted(k).thread) >= 1

\* The last line with text of the first recorded message (a line with text
\* holds the number of its line as its text).
LastMessageRow(k) ==
  LET message == Emitted(k).thread[1].message IN message[Len(message)]

\* The lines that end the first recorded message: the lines after its last
\* line with text that are no empty quote lines.
RowsPastMessage(k) ==
  {r \in RowIndexes(k) : r > LastMessageRow(k) /\ ~IsEmptyQuote(blockLines[r])}

\* A header line follows the first recorded message.
SecondHeaderFollows(k) ==
  /\ HasRecordedMessage(k)
  /\ \E h \in HeaderRows(k) : h > LastMessageRow(k)

\* The first recorded message is ended by a header line, or by a blank line
\* or a line that is no quote with a line that is not blank somewhere after it.
RowFollowsMessage(k) ==
  /\ HasRecordedMessage(k)
  /\ RowsPastMessage(k) # {}
  /\ LET end == Least(RowsPastMessage(k))
     IN \/ IsThreadHeader(blockLines[end])
        \/ \E r \in RowIndexes(k) : r > end /\ ~IsBlank(blockLines[r])

\* C29 (as amended): the "Multiple message blocks" error is reported for a
\* thread if and only if a line that is not blank follows its first recorded
\* message: the header line that ended the message, or any line after the
\* blank line or the line without ">" that ended it.  It is reported at most
\* once per thread and every emitted thread holds at most one message.
C29_MultipleIffRowAfterFirstMessage ==
  Parsed =>
    /\ Len(threads.comments) = ThreadCount
    /\ \A k \in 1..ThreadCount :
         /\ MultipleMessageErrors(k) # {} <=> RowFollowsMessage(k)
         /\ Cardinality(MultipleMessageErrors(k)) <= 1
         /\ Len(Emitted(k).thread) <= 1

\* Metadata row, header, message text, a blank line and one more line of
\* quoted text that is no header: the error is reported.
C29_Witness ==
  /\ Parsed
  /\ ThreadCount = 1
  /\ Len(blockLines) = 6
  /\ blockLines[2].kind = "meta"
  /\ blockLines[3].kind = "quote-header"
  /\ blockLines[4].kind = "quote-text"
  /\ blockLines[5].kind = "blank"
  /\ blockLines[6].kind = "quote-text"
  /\ ~SecondHeaderFollows(1)
  /\ Cardinality(MultipleMessageErrors(1)) = 1
  /\ Len(Emitted(1).thread) = 1
  /\ Emitted(1).thread[1].message = <<4>>

\* C29 (as stated): the error is reported if and only if a second header
\* line follows the first recorded message, at most once per thread, and
\* every emitted thread holds at most one message.
C29_MultipleIffSecondHeader ==
  Parsed =>
    /\ Len(threads.comments) = ThreadCount
    /\ \A k \in 1..ThreadCount :
         /\ MultipleMessageErrors(k) # {} <=> SecondHeaderFollows(k)
         /\ Cardinality(MultipleMessageErrors(k)) <= 1
         /\ Len(Emitted(k).thread) <= 1

\* The half of C29 as stated that holds: a second header line after the
\* first recorded message is always reported.
SecondHeaderIsReported ==
  Parsed => \A k \in 1..ThreadCount : SecondHeaderFollows(k) => MultipleMessageErrors(k) # {}


----------------------------------------------------------------------------
(* Claims about the links of the table of contents, checked under SpecBuild *)

\* value.toLowerCase() on one word of a heading; the words of the file names
\* and the numbers are in lower case already.
ToLowerCase(word) ==
  CASE word = "Part" -> "part"
    [] word = "Chapter" -> "chapter"
    [] word = "Manuscript" -> "manuscript"
    [] word = "Book" -> "book"
    [] word = "Table" -> "table"
    [] word = "Contents" -> "contents"
    [] OTHER -> word

\* The words that .replace(/[^a-z0-9\s-]/g, "") leaves nothing of.
IsPunctuation(word) == word \in {":", "."}

\* slugify(value): the words in lower case, without the characters that are
\* no letter, digit, white space or hyphen; the words of the tuple are what
\* .replace(/\s+/g, "-") joins.
RECURSIVE slugify(_)
slugify(value) ==
  IF value = <<>> THEN <<>>
  ELSE (IF IsPunctuation(Head(value)) THEN <<>> ELSE <<ToLowerCase(Head(value))>>)
       \o slugify(Tail(value))

\* The lines that are headings of the compiled file: its title, the heading
\* of the table of contents, the group headings and the documents' headings.
HeadingLinesOfOutput ==
  {n \in DOMAIN output.lines :
     output.lines[n].kind \in {"title", "toc-marker", "heading", "entry-heading"}}

TocLinesOfOutput == LinesOfKind("toc")

\* The link of the table-of-contents line t targets the slug of a heading.
LinkHasTarget(t) ==
  \E h \in HeadingLinesOfOutput : slugify(output.lines[h].text) = slugify(output.lines[t].text)

\* C30: every link of the table of contents targets the slug of a heading
\* line of the compiled file, for every configuration of the grouping levels,
\* also the one without levels.
C30_TocLinksHaveTargets ==
  output.written => \A t \in TocLinesOfOutput : LinkHasTarget(t)

\* With one grouping level or more, every link targets the slug of a group
\* heading of its depth.
TocLinksHaveTargetsWithLevels ==
  (output.written /\ Len(Lvls) > 0) =>
    \A t \in TocLinesOfOutput :
      \E h \in LinesOfKind("heading") :
        /\ slugify(output.lines[h].text) = slugify(output.lines[t].text)
        /\ output.lines[h].level = output.lines[t].level

====
